---------------------------- MODULE Spec2Model ----------------------------
(***************************************************************************)
(* A model of geo_image_search: the directory scan with checkpoint and     *)
(* resume of the package (geo_image_search/main.py, clustering.py,         *)
(* search.py) and of the single-file program (geo_image_search.py), the    *)
(* radius test, and the clustering of images by location.                  *)
(*                                                                         *)
(* Abstractions.  A coordinate is a pair <<latitude, longitude>> of whole   *)
(* numbers on a small grid, and geopy's geodesic distance, in miles, is    *)
(* the sum of the absolute differences of the two axes (a metric).         *)
(* A directory tree is the sequence of its entries in the order the walk   *)
(* meets them; an entry records where it lies (directly in the root, in a  *)
(* subdirectory, in the output directory subtree), whether its suffix is   *)
(* a JPEG suffix, and the position its GPS data gives (NoGPS when the      *)
(* metadata reader yields no coordinates).  A file identifier is the pair  *)
(* of the root directory and the entry's index, as the path of the file    *)
(* begins with the root.                                                   *)
(***************************************************************************)
EXTENDS Integers, Sequences, FiniteSets, TLC

\* ------------------------------------------------------------------ bounds

\* Entries at the head of the tree whose kind is arbitrary.
NumSpecial == 1
\* Entries after them: JPEG files of a subdirectory, far from every center.
NumFiller == 100
\* Program executions in one behaviour (a run and the runs that follow it).
MaxRuns == 2
\* Latitudes are 0..MaxLat and longitudes 0..MaxLon.
MaxLat == 1
MaxLon == 2
\* Images in one call of the clustering.
MaxImages == 3
\* Cluster radii are 0..MaxRadius.
MaxRadius == 2
\* Place names of the reverse geocoder have at most MaxNameLen characters.
MaxNameLen == 1
\* The largest whole number of degrees a GPS array holds.
MaxDegrees == 200
\* Accuracy readings and thresholds are 0..MaxAccuracy.
MaxAccuracy == 2
\* The days of January 2024 a date may be are 1..MaxDay.
MaxDay == 2
\* A checkpoint document names at most MaxIds file identifiers.
MaxIds == 2
\* Files of a walk.
MaxWalk == 2
\* Files one scan processes while its checkpoint saves are watched.
MaxProcessed == 100
\* Processing a file takes 0 or MaxTick seconds, and the seconds since the
\* last checkpoint save are counted up to MaxElapsed.
MaxTick == 20
MaxElapsed == 40
\* Cluster names given to the folder naming have at most MaxFolderChars
\* characters, or as many after a run of letters as long as the limit.
MaxFolderChars == 3

\* ------------------------------------------------------- program constants

CHECKPOINT_INTERVAL_FILES == 100
CHECKPOINT_INTERVAL_SECONDS == 30
FolderNameLimit == 100
INTERRUPTED == 1
SUCCESS == 0

\* ------------------------------------------------------------- the inputs

NoGPS == <<>>
NoFile == [exists |-> FALSE]
FarAway == <<50, 50>>

Places == {"root", "sub", "out"}
Coords == (0..MaxLat) \X (0..MaxLon)

EntryKinds == [place : Places, jpeg : BOOLEAN, gps : Coords \cup {NoGPS}]

FillerEntry == [place |-> "sub", jpeg |-> TRUE, gps |-> FarAway]

NumFiles == NumSpecial + NumFiller

\* A tree is given by its arbitrary entries; the others are FillerEntry.
Trees == [1..NumSpecial -> EntryKinds]

EntryAt(t, i) == IF i \in DOMAIN t THEN t[i] ELSE FillerEntry

Roots == {"/a", "/b"}

\* The part of a run's configuration that identifies the search.
SearchCenters == {<<0, 0>>, <<0, 1>>}
Fingerprints == [coords : SearchCenters, radius : {1, 2}, root : Roots]

\* A run's configuration: the search, --resume, --save_addresses.  An output
\* directory is always configured: a run without one is a run over a tree
\* with no entry in the output directory.
Configs ==
  [coords : SearchCenters, radius : {1, 2}, root : Roots,
   resume : BOOLEAN, save_addresses : BOOLEAN]

FirstConfigs ==
  {c \in Configs : c.coords = <<0, 0>> /\ c.radius = 1 /\ c.root = "/a"}

VARIABLES
  pc,                  \* where the running program is
  run,                 \* the number of the program execution
  config,              \* the configuration of this execution
  tree,                \* the directory tree under every root (its head)
  cursor,              \* the next entry of the walk
  total_processed,     \* total_processed / files_processed
  processed_files_set, \* the processed identifiers the scan holds
  found_images,        \* the matching images found by this execution
  handed,              \* history: identifiers given to per-image processing
  checkpoint,          \* the checkpoint file
  saved_by,            \* history: the search of the run that wrote checkpoint
  saved_state,         \* history: what the scan held when it last saved
  csv_file,            \* the CSV file
  exit_code,           \* the exit status of the execution, once it has ended
  impl,                \* which program runs: the package or the single file
  image_data_list,     \* clustering: the images, by their coordinates
  cluster_radius,      \* clustering: cluster_radius / self.radius
  idx,                 \* clustering: the next image of image_data_list
  cluster_centers,     \* package: the centers and names, in creation order
  clusters,            \* package: the dictionary from names to image lists
  location_clusters,   \* single file: self.location_clusters
  assigned,            \* history: what the last assignment returned
  match_in,            \* radius test: the center, the radius, the image
  match_out,           \* radius test: the answer, once given
  call,                \* a single call: the function called and its arguments
  result               \* a single call: what it has done and returned so far

scanVars ==
  <<pc, run, config, tree, cursor, total_processed, processed_files_set,
    found_images, handed, checkpoint, saved_by, saved_state, csv_file,
    exit_code>>

clusterVars ==
  <<image_data_list, cluster_radius, idx, cluster_centers, clusters,
    location_clusters, assigned>>

matchVars == <<match_in, match_out>>

callVars == <<call, result>>

vars == <<scanVars, clusterVars, matchVars, callVars, impl>>

\* ------------------------------------------------------------ pure helpers

Abs(x) == IF x < 0 THEN -x ELSE x

\* geopy.distance.distance(a, b).miles
distance(a, b) == Abs(a[1] - b[1]) + Abs(a[2] - b[2])

\* LocationSearchEngine.calculate_distance_miles
calculate_distance_miles(search_coords, image_coords) ==
  distance(search_coords, image_coords)

\* LocationSearchEngine.is_within_radius
is_within_radius(search_coords, radius, image_coords) ==
  calculate_distance_miles(search_coords, image_coords) <= radius

FileId(root, i) == <<root, i>>

Range(s) == {s[i] : i \in 1..Len(s)}

Fingerprint(c) == [coords |-> c.coords, radius |-> c.radius, root |-> c.root]

\* SearchWorkflow._should_skip_directory: the directory of the entry is the
\* configured output directory or lies below it.
should_skip_directory(entry, c) == entry.place = "out"

\* Path.rglob("*") yields the descendants of the root, never the root itself,
\* so the inner loop of _scan_and_process_images lists only the directories
\* below the root.
listed_by_rglob(entry) == entry.place # "root"

\* SearchWorkflow._should_process_file
should_process_file(entry, file_id, processed) ==
  /\ entry.jpeg
  /\ file_id \notin processed

\* SearchWorkflow._process_image_file: the image data, or None.
process_image_file(entry, c) ==
  /\ entry.gps # NoGPS
  /\ is_within_radius(c.coords, c.radius, entry.gps)

\* CheckpointManager.save_checkpoint: the file it writes.
save_checkpoint(processed_files, total_files) ==
  [exists |-> TRUE, processed_files |-> processed_files,
   total_files |-> total_files]

\* SearchWorkflow._handle_checkpoint_saving
handle_checkpoint_saving(old, total, file_id) ==
  IF total % CHECKPOINT_INTERVAL_FILES = 0
    THEN save_checkpoint(<<file_id>>, total)
    ELSE old

\* CheckpointManager.load_checkpoint: the processed files, or None (here the
\* empty sequence stands for both None and an empty list, which
\* _handle_checkpoint_resume turns into the same empty set).
load_checkpoint(file) ==
  IF file.exists THEN file.processed_files ELSE <<>>

\* SearchWorkflow._scan_and_process_images: the list of found images at the
\* start of the walk, resumed or not.
resumed_found_images == <<>>

\* SearchWorkflow._handle_checkpoint_resume
handle_checkpoint_resume(c, file) ==
  IF c.resume THEN Range(load_checkpoint(file)) ELSE {}

\* The variables of the clustering and of the radius test, when neither runs.
ClusterIdle ==
  /\ image_data_list = <<>>
  /\ cluster_radius = 0
  /\ idx = 1
  /\ cluster_centers = <<>>
  /\ clusters = <<>>
  /\ location_clusters = <<>>
  /\ assigned = <<>>

MatchIdle ==
  /\ match_in = <<>>
  /\ match_out = "none"

\* The variables of a single call, when none is made.
CallIdle ==
  /\ call = [fn |-> "none"]
  /\ result = [pc |-> "idle"]

\* The variables of the scan, when it does not run.
ScanIdle ==
  /\ pc = "idle"
  /\ run = 1
  /\ config = <<>>
  /\ tree = <<>>
  /\ cursor = 1
  /\ total_processed = 0
  /\ processed_files_set = {}
  /\ found_images = <<>>
  /\ handed = <<>>
  /\ checkpoint = NoFile
  /\ saved_by = <<>>
  /\ saved_state = <<>>
  /\ csv_file = <<>>
  /\ exit_code = SUCCESS

\* --------------------------------------------------------------- the scan

Init ==
  /\ pc = "resume"
  /\ run = 1
  /\ config \in FirstConfigs
  /\ tree \in Trees
  /\ cursor = 1
  /\ total_processed = 0
  /\ processed_files_set = {}
  /\ found_images = resumed_found_images
  /\ handed = <<>>
  /\ checkpoint = NoFile
  /\ saved_by = Fingerprint(config)
  /\ saved_state = [ids |-> {}, records |-> <<>>]
  /\ csv_file = <<>>
  /\ exit_code = SUCCESS
  /\ impl = "package"
  /\ ClusterIdle
  /\ MatchIdle
  /\ CallIdle

\* SearchWorkflow.run, up to the walk: _handle_checkpoint_resume.
HandleCheckpointResume ==
  /\ UNCHANGED <<clusterVars, matchVars, callVars, impl>>
  /\ pc = "resume"
  /\ processed_files_set' = handle_checkpoint_resume(config, checkpoint)
  /\ pc' = "scan"
  /\ UNCHANGED <<run, config, tree, cursor, total_processed, found_images,
                 handed, checkpoint, saved_by, saved_state, csv_file,
                 exit_code>>

\* One iteration of the walk of _scan_and_process_images over an entry that
\* is not processed.
SkipEntry ==
  /\ UNCHANGED <<clusterVars, matchVars, callVars, impl>>
  /\ pc = "scan"
  /\ cursor <= NumFiles
  /\ LET entry == EntryAt(tree, cursor)
         file_id == FileId(config.root, cursor)
     IN  \/ ~listed_by_rglob(entry)
         \/ should_skip_directory(entry, config)
         \/ ~should_process_file(entry, file_id, processed_files_set)
  /\ cursor' = cursor + 1
  /\ UNCHANGED <<pc, run, config, tree, total_processed, processed_files_set,
                 found_images, handed, checkpoint, saved_by, saved_state,
                 csv_file, exit_code>>

\* One iteration of the walk over an entry that is processed: the count, the
\* per-image processing, the append and the checkpoint saving.
ProcessEntry ==
  /\ UNCHANGED <<clusterVars, matchVars, callVars, impl>>
  /\ pc = "scan"
  /\ cursor <= NumFiles
  /\ LET entry == EntryAt(tree, cursor)
         file_id == FileId(config.root, cursor)
         total == total_processed + 1
         found == IF process_image_file(entry, config)
                    THEN Append(found_images, file_id)
                    ELSE found_images
         file == handle_checkpoint_saving(checkpoint, total, file_id)
     IN  /\ listed_by_rglob(entry)
         /\ ~should_skip_directory(entry, config)
         /\ should_process_file(entry, file_id, processed_files_set)
         /\ total_processed' = total
         /\ found_images' = found
         /\ handed' = Append(handed, file_id)
         /\ checkpoint' = file
         /\ IF file # checkpoint
              THEN /\ saved_by' = Fingerprint(config)
                   /\ saved_state' =
                        [ids |-> processed_files_set \cup Range(handed'),
                         records |-> found]
              ELSE UNCHANGED <<saved_by, saved_state>>
  /\ cursor' = cursor + 1
  /\ UNCHANGED <<pc, run, config, tree, processed_files_set, csv_file,
                 exit_code>>

\* SearchWorkflow.run after the walk, no image found: the early return.
FinishNoImages ==
  /\ UNCHANGED <<clusterVars, matchVars, callVars, impl>>
  /\ pc = "scan"
  /\ cursor > NumFiles
  /\ found_images = <<>>
  /\ pc' = "done"
  /\ exit_code' = SUCCESS
  /\ UNCHANGED <<run, config, tree, cursor, total_processed,
                 processed_files_set, found_images, handed, checkpoint,
                 saved_by, saved_state, csv_file>>

\* SearchWorkflow.run after the walk, images found: _handle_exports,
\* _copy_files_if_needed, clear_checkpoint.
FinishWithImages ==
  /\ UNCHANGED <<clusterVars, matchVars, callVars, impl>>
  /\ pc = "scan"
  /\ cursor > NumFiles
  /\ found_images # <<>>
  /\ csv_file' = IF config.save_addresses THEN found_images ELSE csv_file
  /\ checkpoint' = NoFile
  /\ pc' = "done"
  /\ exit_code' = SUCCESS
  /\ UNCHANGED <<run, config, tree, cursor, total_processed,
                 processed_files_set, found_images, handed, saved_by,
                 saved_state>>

\* main: KeyboardInterrupt raised anywhere in the workflow.
Interrupt ==
  /\ UNCHANGED <<clusterVars, matchVars, callVars, impl>>
  /\ pc \in {"resume", "scan"}
  /\ pc' = "interrupted"
  /\ exit_code' = INTERRUPTED
  /\ UNCHANGED <<run, config, tree, cursor, total_processed,
                 processed_files_set, found_images, handed, checkpoint,
                 saved_by, saved_state, csv_file>>

\* The program is started again: the files stay, the memory is new.
NewRun ==
  /\ UNCHANGED <<clusterVars, matchVars, callVars, impl>>
  /\ pc \in {"done", "interrupted"}
  /\ run < MaxRuns
  /\ run' = run + 1
  /\ config' \in {c \in Configs : c.save_addresses = config.save_addresses}
  /\ pc' = "resume"
  /\ cursor' = 1
  /\ total_processed' = 0
  /\ processed_files_set' = {}
  /\ found_images' = resumed_found_images
  /\ handed' = <<>>
  /\ exit_code' = SUCCESS
  /\ UNCHANGED <<tree, checkpoint, saved_by, saved_state, csv_file>>

Next ==
  \/ HandleCheckpointResume
  \/ SkipEntry
  \/ ProcessEntry
  \/ FinishNoImages
  \/ FinishWithImages
  \/ Interrupt
  \/ NewRun

Spec == Init /\ [][Next]_vars

\* ------------------------------------------------------------------ names

\* A name is a sequence of characters.
ClusterPrefix == <<"C", "l", "u", "s", "t", "e", "r", "_">>
UnknownLocation ==
  <<"U", "n", "k", "n", "o", "w", "n", "_", "L", "o", "c", "a", "t", "i",
    "o", "n">>
ImagesName == <<"i", "m", "a", "g", "e", "s">>

\* f"{x:.3f}" of a whole number.
Format3f(x) == <<ToString(x), ".", "0", "0", "0">>

UnsafeChars == {"<", ">", ":", "\"", "/", "\\", "|", "?", "*"}

\* The characters the pattern [_\s] matches.
UnderscoreOrSpace == {"_", " ", "\t", "\n"}

\* re.sub(r'[<>:"/\\|?*]', "_", name)
replace_unsafe(name) ==
  LET Replaced(s) ==
        [i \in 1..Len(s) |-> IF s[i] \in UnsafeChars THEN "_" ELSE s[i]]
  IN  CHOOSE r \in {Replaced(s) : s \in {name}} : TRUE

\* str.replace(' ', '_')
replace_spaces(name) ==
  LET Replaced(s) == [i \in 1..Len(s) |-> IF s[i] = " " THEN "_" ELSE s[i]]
  IN  CHOOSE r \in {Replaced(s) : s \in {name}} : TRUE

\* re.sub(r"[_\s]+", "_", name): every maximal run becomes one underscore
\* (the last character of a run is kept, as an underscore, the others go).
collapse_runs(name) ==
  LET Marked(s) ==
        [i \in 1..Len(s) |->
           IF s[i] \in UnderscoreOrSpace
             THEN <<"_", i = Len(s) \/ s[i + 1] \notin UnderscoreOrSpace>>
             ELSE <<s[i], TRUE>>]
      Kept(e) == e[2]
      First(kept) == [i \in 1..Len(kept) |-> kept[i][1]]
  IN  CHOOSE r \in {First(kept) :
                      kept \in {SelectSeq(m, Kept) :
                                  m \in {Marked(s) : s \in {name}}}} : TRUE

\* str.lstrip(chars) and str.rstrip(chars)
lstrip(name, chars) ==
  LET Stay(s) == {i \in 1..Len(s) : s[i] \notin chars}
      Stripped(s, stay) ==
        IF stay = {} THEN <<>>
        ELSE SubSeq(s, CHOOSE i \in stay : \A j \in stay : i <= j, Len(s))
  IN  CHOOSE r \in {Stripped(p[1], p[2]) :
                      p \in {<<s, Stay(s)>> : s \in {name}}} : TRUE

rstrip(name, chars) ==
  LET Stay(s) == {i \in 1..Len(s) : s[i] \notin chars}
      Stripped(s, stay) ==
        IF stay = {} THEN <<>>
        ELSE SubSeq(s, 1, CHOOSE i \in stay : \A j \in stay : i >= j)
  IN  CHOOSE r \in {Stripped(p[1], p[2]) :
                      p \in {<<s, Stay(s)>> : s \in {name}}} : TRUE

strip(name, chars) == rstrip(lstrip(name, chars), chars)

\* GeoImageSearch.sanitize_folder_name
sanitize_folder_name(name) ==
  IF name = <<>> THEN UnknownLocation
  ELSE LET safe_name == strip(collapse_runs(replace_unsafe(name)), {"_"})
           cut == IF Len(safe_name) > FolderNameLimit
                    THEN SubSeq(safe_name, 1, FolderNameLimit)
                    ELSE safe_name
       IN  IF cut = <<>> THEN UnknownLocation ELSE cut

\* PathNormalizer.sanitize_folder_name
normalizer_sanitize_folder_name(folder_name) ==
  LET sanitized == strip(replace_unsafe(folder_name), {".", " "})
  IN  IF sanitized = <<>> THEN ImagesName ELSE sanitized

\* ------------------------------------------------------------- clustering

\* What the reverse geocoder gives for a cluster center: a place name, no
\* usable address component, or an error.
NameChars == {"a", " ", "/"}

RECURSIVE SeqsUpTo(_, _)
SeqsUpTo(S, n) ==
  IF n = 0 THEN {<<>>}
  ELSE LET shorter == SeqsUpTo(S, n - 1)
       IN  shorter \cup {Append(q, x) : q \in shorter, x \in S}

Placenames == SeqsUpTo(NameChars, MaxNameLen) \ {<<>>}

GeocodeOutcomes ==
  {[kind |-> "place", name |-> n] : n \in Placenames}
    \cup {[kind |-> "none", name |-> <<>>], [kind |-> "error", name |-> <<>>]}

\* The lists of images cluster_images_by_location may be given.
ImageLists == SeqsUpTo(Coords \cup {NoGPS}, MaxImages)

\* The naming without the coordinate stamp: a failed geocoding gives the
\* index alone.
generate_cluster_name_unstamped(location, cluster_index, g) ==
  IF g.kind = "place"
    THEN ClusterPrefix \o replace_spaces(g.name)
    ELSE ClusterPrefix \o <<ToString(cluster_index)>>

\* ClusteringEngine._generate_cluster_name
generate_cluster_name(location, cluster_index, g) ==
  IF g.kind = "place"
    THEN ClusterPrefix \o replace_spaces(g.name)
    ELSE ClusterPrefix \o <<ToString(cluster_index), "_">>
           \o Format3f(location[1]) \o <<"_">> \o Format3f(location[2])

Min(S) == CHOOSE x \in S : \A y \in S : x <= y

\* The cluster within the radius whose center is nearest (0 when none is).
nearest_cluster_within(centers, img_location, r) ==
  LET within == {i \in 1..Len(centers) :
                   distance(img_location, centers[i].center) <= r}
  IN  IF within = {} THEN 0
      ELSE CHOOSE i \in within : \A j \in within :
             \/ distance(img_location, centers[i].center)
                  < distance(img_location, centers[j].center)
             \/ /\ distance(img_location, centers[i].center)
                     = distance(img_location, centers[j].center)
                /\ i <= j

\* The loop of cluster_images_by_location over cluster_centers: the first
\* cluster within the radius (0 when none is).
first_cluster_within(centers, img_location, r) ==
  LET within == {i \in 1..Len(centers) :
                   distance(img_location, centers[i].center) <= r}
  IN  IF within = {} THEN 0 ELSE Min(within)

\* clusters[assigned_cluster] = []
dict_set(d, key, value) ==
  [k \in DOMAIN d \cup {key} |-> IF k = key THEN value ELSE d[k]]

\* One iteration of the loop of cluster_images_by_location, for an image with
\* coordinates: the centers, the dictionary and assigned_cluster after it.
cluster_image(centers, d, i, img_location, r, g) ==
  LET k == first_cluster_within(centers, img_location, r)
      cluster_name == generate_cluster_name(img_location, Len(centers), g)
      assigned_cluster == IF k # 0 THEN centers[k].name ELSE cluster_name
      d1 == IF k # 0 THEN d ELSE dict_set(d, cluster_name, <<>>)
  IN  [centers |-> IF k # 0 THEN centers
                   ELSE Append(centers,
                               [center |-> img_location, name |-> cluster_name]),
       clusters |-> [d1 EXCEPT ![assigned_cluster] = Append(@, i)],
       assigned |-> assigned_cluster]

\* The cluster after a later image has joined it: the center moves to the image.
joined_cluster_recentered(cluster, image_coords) ==
  [cluster EXCEPT !.coords = Append(@, image_coords), !.center = image_coords]

\* find_or_create_cluster, an existing cluster is within the radius: the
\* image's coordinates are appended to the cluster's "coords".
joined_cluster(cluster, image_coords) ==
  [cluster EXCEPT !.coords = Append(@, image_coords)]

\* find_or_create_cluster: the radius the search for a cluster uses.
fallback_radius(self_radius) == IF self_radius = 0 THEN 1 ELSE self_radius

\* find_or_create_cluster: the name of a new cluster.
new_cluster_name(lat, lon, n, g) ==
  IF g.kind = "place" /\ g.name # <<>>
    THEN g.name
    ELSE ClusterPrefix \o <<ToString(n + 1), "_">>
           \o Format3f(lat) \o <<"_">> \o Format3f(lon)

\* os.path.join(self.output_directory, safe_name): the folder is named by
\* safe_name below the one output directory.
cluster_folder_path(safe_name) == safe_name

\* GeoImageSearch.find_or_create_cluster: the clusters after it and the folder
\* path it returns.
find_or_create_cluster(lc, self_radius, image_coords, g) ==
  LET k == first_cluster_within(lc, image_coords, fallback_radius(self_radius))
      cluster_name == new_cluster_name(image_coords[1], image_coords[2], Len(lc), g)
      cluster_folder == cluster_folder_path(sanitize_folder_name(cluster_name))
      new_cluster == [name |-> cluster_name, center |-> image_coords,
                      folder_path |-> cluster_folder, image_count |-> 0,
                      coords |-> <<>>]
  IN  IF k # 0
        THEN [clusters |-> [lc EXCEPT ![k] = joined_cluster(@, image_coords)],
              folder |-> lc[k].folder_path]
        ELSE [clusters |-> Append(lc, new_cluster), folder |-> cluster_folder]

\* GeoImageSearch.increment_cluster_count
increment_cluster_count(lc, folder_path) ==
  LET hits == {i \in 1..Len(lc) : lc[i].folder_path = folder_path}
  IN  IF hits = {} THEN lc
      ELSE [lc EXCEPT ![Min(hits)].image_count = @ + 1]

InitCluster ==
  /\ impl \in {"package", "legacy"}
  /\ image_data_list \in ImageLists
  /\ impl = "legacy" => \A i \in 1..Len(image_data_list) : image_data_list[i] # NoGPS
  /\ cluster_radius \in 0..MaxRadius
  /\ idx = 1
  /\ cluster_centers = <<>>
  /\ clusters = <<>>
  /\ location_clusters = <<>>
  /\ assigned = <<>>
  /\ ScanIdle
  /\ MatchIdle
  /\ CallIdle

\* cluster_images_by_location, an image without latitude or longitude.
SkipImageWithoutCoordinates ==
  /\ UNCHANGED <<scanVars, matchVars, callVars, impl>>
  /\ impl = "package"
  /\ idx <= Len(image_data_list)
  /\ image_data_list[idx] = NoGPS
  /\ idx' = idx + 1
  /\ UNCHANGED <<image_data_list, cluster_radius, cluster_centers, clusters,
                 location_clusters, assigned>>

\* cluster_images_by_location, an image with coordinates.
ClusterImage ==
  /\ UNCHANGED <<scanVars, matchVars, callVars, impl>>
  /\ impl = "package"
  /\ idx <= Len(image_data_list)
  /\ image_data_list[idx] # NoGPS
  /\ \E g \in GeocodeOutcomes :
       LET r == cluster_image(cluster_centers, clusters, idx,
                              image_data_list[idx], cluster_radius, g)
       IN  /\ cluster_centers' = r.centers
           /\ clusters' = r.clusters
           /\ assigned' = r.assigned
  /\ idx' = idx + 1
  /\ UNCHANGED <<image_data_list, cluster_radius, location_clusters>>

\* GeoImageSearch.process_clustered_image: the cluster is found or created,
\* the image is copied into its folder and, unless the copy fails, counted.
ProcessClusteredImage ==
  /\ UNCHANGED <<scanVars, matchVars, callVars, impl>>
  /\ impl = "legacy"
  /\ idx <= Len(image_data_list)
  /\ \E g \in GeocodeOutcomes, copied \in BOOLEAN :
       LET r == find_or_create_cluster(location_clusters, cluster_radius,
                                       image_data_list[idx], g)
       IN  /\ location_clusters' =
                IF copied THEN increment_cluster_count(r.clusters, r.folder)
                ELSE r.clusters
           /\ assigned' = r.folder
  /\ idx' = idx + 1
  /\ UNCHANGED <<image_data_list, cluster_radius, cluster_centers, clusters>>

NextCluster ==
  \/ SkipImageWithoutCoordinates
  \/ ClusterImage
  \/ ProcessClusteredImage

SpecCluster == InitCluster /\ [][NextCluster]_vars

\* ------------------------------------------------------- the radius test

\* GeoImageSearch.process_standard_image: whether the image is reported as a
\* match (the function returns True).
process_standard_image(lat_deg_dec, long_deg_dec, search_coords, self_radius) ==
  /\ lat_deg_dec # 0
  /\ long_deg_dec # 0
  /\ self_radius # 0
  /\ distance(search_coords, <<lat_deg_dec, long_deg_dec>>) < self_radius

InitMatch ==
  /\ impl \in {"package", "legacy"}
  /\ match_in \in [center : Coords, radius : 0..MaxRadius, image : Coords]
  /\ match_out = "none"
  /\ ScanIdle
  /\ ClusterIdle
  /\ CallIdle

\* SearchWorkflow._process_image_file: the radius check of an image.
IsWithinRadius ==
  /\ UNCHANGED <<scanVars, clusterVars, callVars, impl>>
  /\ impl = "package"
  /\ match_out = "none"
  /\ match_out' = IF is_within_radius(match_in.center, match_in.radius,
                                      match_in.image)
                     THEN "match" ELSE "no match"
  /\ UNCHANGED match_in

\* GeoImageSearch.calc_distance in standard mode: process_standard_image.
ProcessStandardImage ==
  /\ UNCHANGED <<scanVars, clusterVars, callVars, impl>>
  /\ impl = "legacy"
  /\ match_out = "none"
  /\ match_out' = IF process_standard_image(match_in.image[1],
                                            match_in.image[2],
                                            match_in.center, match_in.radius)
                     THEN "match" ELSE "no match"
  /\ UNCHANGED match_in

NextMatch ==
  \/ IsWithinRadius
  \/ ProcessStandardImage

SpecMatch == InitMatch /\ [][NextMatch]_vars

\* ------------------------------------------------- claims about the scan

\* The walk of the tree has ended and run has returned.
Completed == pc = "done"

\* The identifiers the scan has processed so far: those restored from the
\* checkpoint and those processed by this execution.
ProcessedSoFar == processed_files_set \cup Range(handed)

\* The entries C3 names: a JPEG suffix, anywhere in the tree outside the output
\* directory, the identifier not among those loaded from the checkpoint.
Eligible ==
  {FileId(config.root, i) : i \in
     {j \in 1..NumFiles :
        /\ EntryAt(tree, j).jpeg
        /\ EntryAt(tree, j).place # "out"
        /\ FileId(config.root, j) \notin processed_files_set}}

NoDuplicates(s) == \A i, j \in 1..Len(s) : s[i] = s[j] => i = j

\* C1: whenever a checkpoint has been saved, loading it restores exactly the
\* identifiers the scan had processed when it saved and the result records it
\* held then.
C1_CheckpointRoundTrip ==
  checkpoint.exists =>
    /\ Range(load_checkpoint(checkpoint)) = saved_state.ids
    /\ resumed_found_images = saved_state.records

\* C2: a run that resumes under a search coordinate, radius or root directory
\* other than those of the run that saved the checkpoint restores no
\* processed identifier.
C2_FingerprintRejection ==
  (/\ pc = "scan"
   /\ cursor = 1
   /\ checkpoint.exists
   /\ saved_by # Fingerprint(config)) => processed_files_set = {}

\* C3: in a run that completes, the files handed to per-image processing are
\* exactly the eligible files, each handed once.
C3_EligibleFilesProcessedOnce ==
  Completed => (NoDuplicates(handed) /\ Range(handed) = Eligible)

\* C4: a run that completes leaves no checkpoint file, whether it found
\* matching images or none.
C4_CheckpointClearedOnCompletion == Completed => ~checkpoint.exists

\* C5: a scan that was interrupted after it processed files has exited with
\* the interrupted status, has saved a checkpoint that records the files
\* processed so far, and has written the CSV rows it had collected.
C5_InterruptSavesProgress ==
  (pc = "interrupted" /\ handed # <<>>) =>
    /\ exit_code = INTERRUPTED
    /\ checkpoint.exists
    /\ ProcessedSoFar \subseteq Range(load_checkpoint(checkpoint))
    /\ (config.save_addresses /\ found_images # <<>>) =>
         csv_file = found_images

\* ------------------------------------------- claim about the radius test

\* C6: an image is a match exactly when its distance from the search center
\* is at most the radius, the boundary and the radius 0 included.
C6_MatchIffWithinRadius ==
  match_out # "none" =>
    (match_out = "match" <=>
       distance(match_in.center, match_in.image) <= match_in.radius)

\* ------------------------------------------ claims about the clustering

\* The registry of clusters, in creation order: of each cluster its center,
\* its name, its output folder, and what an assignment to it returns.
Registry ==
  IF impl = "package"
    THEN [i \in 1..Len(cluster_centers) |->
            [center |-> cluster_centers[i].center,
             name |-> cluster_centers[i].name,
             folder |-> normalizer_sanitize_folder_name(cluster_centers[i].name),
             key |-> cluster_centers[i].name]]
    ELSE [i \in 1..Len(location_clusters) |->
            [center |-> location_clusters[i].center,
             name |-> location_clusters[i].name,
             folder |-> location_clusters[i].folder_path,
             key |-> location_clusters[i].folder_path]]

\* cluster_images_by_location has returned.
ClusteringReturned == impl = "package" /\ idx > Len(image_data_list)

Located == {i \in 1..Len(image_data_list) : image_data_list[i] # NoGPS}

RECURSIVE SumOfSizes(_, _)
SumOfSizes(d, names) ==
  IF names = {} THEN 0
  ELSE LET n == CHOOSE x \in names : TRUE
       IN  Len(d[n]) + SumOfSizes(d, names \ {n})

\* C7: the clusters cluster_images_by_location returns hold every image with
\* coordinates exactly once, their sizes sum to the number of those images,
\* and none is empty.
C7_ClusteringPreservesImages ==
  ClusteringReturned =>
    /\ \A i \in Located :
         Cardinality({n \in DOMAIN clusters : i \in Range(clusters[n])}) = 1
    /\ SumOfSizes(clusters, DOMAIN clusters) = Cardinality(Located)
    /\ \A n \in DOMAIN clusters : clusters[n] # <<>>

\* The clusters whose center is within the configured radius of a coordinate.
WithinRadius(reg, p) ==
  {i \in 1..Len(reg) : distance(p, reg[i].center) <= cluster_radius}

\* C8: an assignment returns the first cluster in creation order whose center
\* is within the radius of the coordinate, and creates a cluster only when no
\* center is within the radius.
C8_FirstMatchWins ==
  [][(idx' = idx + 1 /\ image_data_list[idx] # NoGPS) =>
       LET p == image_data_list[idx]
           within == WithinRadius(Registry, p)
       IN  /\ within # {} =>
                /\ Len(Registry') = Len(Registry)
                /\ assigned' = Registry[Min(within)].key
           /\ Len(Registry') > Len(Registry) =>
                /\ within = {}
                /\ assigned' = Registry'[Len(Registry')].key]_vars

\* An image was assigned to the first cluster within the radius although a
\* cluster created later is nearer to it.
C8_Witness ==
  /\ idx > 1
  /\ image_data_list[idx - 1] # NoGPS
  /\ LET p == image_data_list[idx - 1]
     IN  \E i, j \in 1..Len(Registry) :
           /\ i < j
           /\ i = Min(WithinRadius(Registry, p) \cup {i})
           /\ distance(p, Registry[i].center) <= cluster_radius
           /\ distance(p, Registry[j].center) < distance(p, Registry[i].center)
           /\ Registry[i].key # Registry[j].key
           /\ assigned = Registry[i].key

\* C9: no step removes a cluster or changes a center, and a new cluster's
\* center is the coordinate of the image it is created for.
C9_CentersFixed ==
  [][/\ Len(Registry') >= Len(Registry)
     /\ \A i \in 1..Len(Registry) : Registry'[i].center = Registry[i].center
     /\ Len(Registry') > Len(Registry) =>
          /\ Len(Registry') = Len(Registry) + 1
          /\ Registry'[Len(Registry')].center = image_data_list[idx]]_vars

\* Two clusters exist and an image at another coordinate than the center has
\* joined one of them.
C9_Witness ==
  /\ impl = "legacy"
  /\ Len(location_clusters) >= 2
  /\ \E i \in 1..Len(location_clusters) :
       \E k \in 1..Len(location_clusters[i].coords) :
         location_clusters[i].coords[k] # location_clusters[i].center

\* C10: any two clusters of the registry have distinct names and distinct
\* output folders.
C10_DistinctNamesAndFolders ==
  \A i, j \in 1..Len(Registry) :
    i # j => /\ Registry[i].name # Registry[j].name
             /\ Registry[i].folder # Registry[j].folder

\* -------------------------------------------------------- GPS coordinates

\* An EXIF attribute of an image: missing (hasattr is false) or present with
\* a value.  An optional number (float | None) is <<>> for None and <<x>> for
\* the number x.  Decimal degrees are counted in arc seconds (1/3600 of a
\* degree), so that degrees + minutes / 60 + seconds / 3600 is a whole number.
Missing(v) == [present |-> FALSE, value |-> v]
Present(v) == [present |-> TRUE, value |-> v]

ArcSeconds == 3600

Degrees == {0, 45, 90, 180, MaxDegrees}
Minutes == {0, 30}

\* What gps_latitude and gps_longitude may hold: [degrees, minutes, seconds],
\* an empty array, an array of two values.
DMSArrays ==
  {<<d, m, 0>> : d \in Degrees, m \in Minutes} \cup {<<>>, <<45, 30>>}

\* What gps_latitude_ref and gps_longitude_ref may hold.
References == {"N", "S", "E", "W", "X"}

GPSAttributes ==
  [gps_latitude : {Present(a) : a \in DMSArrays} \cup {Missing(<<>>)},
   gps_latitude_ref : {Present(r) : r \in References} \cup {Missing("")},
   gps_longitude : {Present(a) : a \in DMSArrays} \cup {Missing(<<>>)},
   gps_longitude_ref : {Present(r) : r \in References} \cup {Missing("")}]

\* ImageMetadata.get_gps_latitude, get_gps_longitude (None is <<>>: the caller
\* tests the truth of the value, and None and [] are both false).
get_gps_latitude(image) ==
  IF image.gps_latitude.present THEN image.gps_latitude.value ELSE <<>>

get_gps_longitude(image) ==
  IF image.gps_longitude.present THEN image.gps_longitude.value ELSE <<>>

\* ImageMetadata.get_gps_latitude_ref, get_gps_longitude_ref
get_gps_latitude_ref(image) ==
  IF image.gps_latitude_ref.present THEN image.gps_latitude_ref.value ELSE "N"

get_gps_longitude_ref(image) ==
  IF image.gps_longitude_ref.present THEN image.gps_longitude_ref.value ELSE "W"

\* GPSImageProcessor._convert_dhms_to_decimal, in arc seconds.
convert_dhms_to_decimal(dhms) ==
  IF dhms = <<>> \/ Len(dhms) < 3 THEN <<>>
  ELSE <<dhms[1] * ArcSeconds + dhms[2] * 60 + dhms[3]>>

\* decimal if ref == positive else -decimal, for a decimal that is not None
\* and not zero (`if decimal_latitude:`).
signed_decimal(decimal, ref, positive) ==
  IF decimal = <<>> \/ decimal = <<0>> THEN <<>>
  ELSE IF ref = positive THEN decimal ELSE <<-decimal[1]>>

\* GPSImageProcessor._get_decimal_coords
get_decimal_coords(image) ==
  LET lat == get_gps_latitude(image)
      lon == get_gps_longitude(image)
  IN  [lat_deg_dec |->
         IF lat # <<>>
           THEN signed_decimal(convert_dhms_to_decimal(lat),
                               get_gps_latitude_ref(image), "N")
           ELSE <<>>,
       long_deg_dec |->
         IF lon # <<>>
           THEN signed_decimal(convert_dhms_to_decimal(lon),
                               get_gps_longitude_ref(image), "E")
           ELSE <<>>]

InitCoords ==
  /\ impl = "package"
  /\ call \in [fn : {"get_decimal_coords"}, image : GPSAttributes]
  /\ result = [pc |-> "called"]
  /\ ScanIdle
  /\ ClusterIdle
  /\ MatchIdle

\* A call of _get_decimal_coords returns.
GetDecimalCoords ==
  /\ UNCHANGED <<scanVars, clusterVars, matchVars, impl>>
  /\ call.fn = "get_decimal_coords"
  /\ result.pc = "called"
  /\ result' = [pc |-> "returned", value |-> get_decimal_coords(call.image)]
  /\ UNCHANGED call

NextCoords == GetDecimalCoords

SpecCoords == InitCoords /\ [][NextCoords]_vars

\* --------------------------------------- claims about the GPS coordinates

\* The magnitude the sign step is given for an axis: the conversion of the
\* axis' array, when the attribute is there and the conversion is not zero.
Magnitude(attribute) ==
  IF attribute.present /\ attribute.value # <<>>
    THEN LET d == convert_dhms_to_decimal(attribute.value)
         IN  IF d = <<0>> THEN <<>> ELSE d
    ELSE <<>>

\* The value C11 gives for a reference: negated for "S" and "W", unchanged for
\* every other reference.
HemisphereSigned(decimal, ref) ==
  IF ref \in {"S", "W"} THEN <<-decimal[1]>> ELSE decimal

\* C11: for an axis whose reference is present, the coordinate returned is the
\* magnitude unchanged when the reference is "N" or "E", negated when it is "S"
\* or "W", and unchanged for any other reference.
C11_HemisphereSign ==
  (call.fn = "get_decimal_coords" /\ result.pc = "returned") =>
    /\ (Magnitude(call.image.gps_latitude) # <<>>
          /\ call.image.gps_latitude_ref.present) =>
         result.value.lat_deg_dec =
           HemisphereSigned(Magnitude(call.image.gps_latitude),
                            call.image.gps_latitude_ref.value)
    /\ (Magnitude(call.image.gps_longitude) # <<>>
          /\ call.image.gps_longitude_ref.present) =>
         result.value.long_deg_dec =
           HemisphereSigned(Magnitude(call.image.gps_longitude),
                            call.image.gps_longitude_ref.value)

\* ------------------------------------------------- the GPS accuracy filter

\* gps_horizontal_error and gps_dop of an image: missing, present with a value
\* float() cannot convert, or present with a number.
NoReading == [present |-> FALSE, readable |-> FALSE, value |-> 0]
UnreadableReading == [present |-> TRUE, readable |-> FALSE, value |-> 0]
Reading(v) == [present |-> TRUE, readable |-> TRUE, value |-> v]

AccuracyReadings ==
  {NoReading, UnreadableReading} \cup {Reading(v) : v \in 0..MaxAccuracy}

\* max_gps_error and max_dop of the filter configuration: None or a number.
Thresholds == {<<>>} \cup {<<t>> : t \in 0..MaxAccuracy}

\* ImageMetadata.get_gps_horizontal_error
get_gps_horizontal_error(image) ==
  IF image.gps_horizontal_error.present /\ image.gps_horizontal_error.readable
    THEN <<image.gps_horizontal_error.value>>
    ELSE <<>>

\* ImageMetadata.get_gps_dop
get_gps_dop(image) ==
  IF image.gps_dop.present /\ image.gps_dop.readable
    THEN <<image.gps_dop.value>>
    ELSE <<>>

\* The filter with inclusive thresholds: a reading equal to its threshold is
\* rejected.
apply_gps_accuracy_filters_inclusive(image, filter_config) ==
  LET gps_error == get_gps_horizontal_error(image)
      dop == get_gps_dop(image)
  IN  IF /\ filter_config.max_gps_error # <<>>
         /\ gps_error # <<>>
         /\ gps_error[1] >= filter_config.max_gps_error[1]
        THEN FALSE
      ELSE IF /\ filter_config.max_dop # <<>>
              /\ dop # <<>>
              /\ dop[1] >= filter_config.max_dop[1]
        THEN FALSE
      ELSE TRUE

\* GPSFilter.apply_gps_accuracy_filters
apply_gps_accuracy_filters(image, filter_config) ==
  LET gps_error == get_gps_horizontal_error(image)
      dop == get_gps_dop(image)
  IN  IF /\ filter_config.max_gps_error # <<>>
         /\ gps_error # <<>>
         /\ gps_error[1] > filter_config.max_gps_error[1]
        THEN FALSE
      ELSE IF /\ filter_config.max_dop # <<>>
              /\ dop # <<>>
              /\ dop[1] > filter_config.max_dop[1]
        THEN FALSE
      ELSE TRUE

InitAccuracy ==
  /\ impl = "package"
  /\ call \in [fn : {"apply_gps_accuracy_filters"},
               image : [gps_horizontal_error : AccuracyReadings,
                        gps_dop : AccuracyReadings],
               filter_config : [max_gps_error : Thresholds,
                                max_dop : Thresholds]]
  /\ result = [pc |-> "called"]
  /\ ScanIdle
  /\ ClusterIdle
  /\ MatchIdle

\* A call of apply_gps_accuracy_filters returns.
ApplyGpsAccuracyFilters ==
  /\ UNCHANGED <<scanVars, clusterVars, matchVars, impl>>
  /\ call.fn = "apply_gps_accuracy_filters"
  /\ result.pc = "called"
  /\ result' = [pc |-> "returned",
                value |-> apply_gps_accuracy_filters(call.image,
                                                     call.filter_config)]
  /\ UNCHANGED call

NextAccuracy == ApplyGpsAccuracyFilters

SpecAccuracy == InitAccuracy /\ [][NextAccuracy]_vars

\* --------------------------------- claim about the GPS accuracy filter

\* A reading is there, is a number, and is strictly greater than a threshold
\* that is set.
Exceeds(reading, threshold) ==
  /\ threshold # <<>>
  /\ reading.present
  /\ reading.readable
  /\ reading.value > threshold[1]

\* C12: the accuracy filter rejects an image exactly when its horizontal error
\* exceeds max_gps_error or its DOP exceeds max_dop; a missing or unreadable
\* reading and an unset threshold never reject.
C12_AccuracyFilter ==
  (call.fn = "apply_gps_accuracy_filters" /\ result.pc = "returned") =>
    (result.value = FALSE <=>
       \/ Exceeds(call.image.gps_horizontal_error,
                  call.filter_config.max_gps_error)
       \/ Exceeds(call.image.gps_dop, call.filter_config.max_dop))

\* The filter has passed an image whose horizontal error equals max_gps_error
\* and whose DOP is unreadable although max_dop is set.
C12_Witness ==
  /\ call.fn = "apply_gps_accuracy_filters"
  /\ result.pc = "returned"
  /\ result.value = TRUE
  /\ call.filter_config.max_gps_error # <<>>
  /\ call.filter_config.max_dop # <<>>
  /\ call.image.gps_horizontal_error.readable
  /\ call.image.gps_horizontal_error.value
       = call.filter_config.max_gps_error[1]
  /\ call.image.gps_dop = UnreadableReading

\* --------------------------------------------------------- the date filter

\* A calendar date is <<year, month, day>>; a text is a sequence of
\* characters; an optional date or text is <<>> for None and <<x>> for x.
DigitChars == {"0", "1", "2", "3", "4", "5", "6", "7", "8", "9"}

DigitValue(c) == CHOOSE d \in 0..9 : ToString(d) = c

TwoDigits(n) == <<ToString(n \div 10), ToString(n % 10)>>

FourDigits(n) ==
  <<ToString(n \div 1000), ToString((n \div 100) % 10),
    ToString((n \div 10) % 10), ToString(n % 10)>>

Number2(text, i) == 10 * DigitValue(text[i]) + DigitValue(text[i + 1])

Number4(text, i) == 100 * Number2(text, i) + Number2(text, i + 2)

IsLeapYear(y) == (y % 4 = 0 /\ y % 100 # 0) \/ y % 400 = 0

DaysInMonth(y, m) ==
  IF m = 2 THEN (IF IsLeapYear(y) THEN 29 ELSE 28)
  ELSE IF m \in {4, 6, 9, 11} THEN 30 ELSE 31

\* date < date
DateBefore(a, b) ==
  \/ a[1] < b[1]
  \/ a[1] = b[1] /\ a[2] < b[2]
  \/ a[1] = b[1] /\ a[2] = b[2] /\ a[3] < b[3]

\* text[:n]
Prefix(text, n) == SubSeq(text, 1, IF Len(text) < n THEN Len(text) ELSE n)

\* datetime.strptime(text, "%Y<sep>%m<sep>%d").date() for a text of four, two
\* and two digits: <<date>>, or <<>> when strptime raises ValueError.
strptime_date(text, sep) ==
  IF /\ Len(text) = 10
     /\ text[5] = sep
     /\ text[8] = sep
     /\ \A i \in {1, 2, 3, 4, 6, 7, 9, 10} : text[i] \in DigitChars
    THEN LET y == Number4(text, 1)
             m == Number2(text, 6)
             d == Number2(text, 9)
         IN  IF y >= 1 /\ m \in 1..12 /\ d >= 1 /\ d <= DaysInMonth(y, m)
               THEN <<(<<y, m, d>>)>>
               ELSE <<>>
    ELSE <<>>

\* datetime.strptime(text, "%Y:%m:%d %H:%M:%S").date(), likewise.
strptime_datetime(text) ==
  IF /\ Len(text) = 19
     /\ text[11] = " "
     /\ text[14] = ":"
     /\ text[17] = ":"
     /\ \A i \in {12, 13, 15, 16, 18, 19} : text[i] \in DigitChars
     /\ Number2(text, 12) < 24
     /\ Number2(text, 15) < 60
     /\ Number2(text, 18) < 62
    THEN strptime_date(SubSeq(text, 1, 10), ":")
    ELSE <<>>

\* text.split()[0]: the first run of characters that are not spaces (<<>> when
\* there is none, where Python raises IndexError).
RECURSIVE first_token(_)
first_token(text) ==
  IF text = <<>> THEN <<>>
  ELSE IF Head(text) = " " THEN first_token(Tail(text))
  ELSE LET cut == {i \in 1..Len(text) : text[i] = " "}
       IN  IF cut = {} THEN text
           ELSE SubSeq(text, 1, (CHOOSE i \in cut : \A j \in cut : i <= j) - 1)

\* The dates of the model: the last day of 2023 and the first days of 2024.
Dates == {<<2023, 12, 31>>} \cup {<<2024, 1, d>> : d \in 1..MaxDay}

TimeOfDay == <<" ", "1", "0", ":", "3", "0", ":", "0", "0">>

\* The texts a date field may hold for a date: "YYYY:MM:DD HH:MM:SS",
\* "YYYY-MM-DD", "YYYY:MM:DD" and "YYYY-MM-DD HH:MM:SS".
DateText(date, sep) ==
  FourDigits(date[1]) \o <<sep>> \o TwoDigits(date[2]) \o <<sep>>
    \o TwoDigits(date[3])

ExifStamp(date) == DateText(date, ":") \o TimeOfDay
DashDate(date) == DateText(date, "-")
ColonDate(date) == DateText(date, ":")
DashStamp(date) == DateText(date, "-") \o TimeOfDay

\* Texts that are no date: "not-a-date", the null stamp "0000:00:00 00:00:00"
\* and a day that is not in the calendar, "2024:02:30 10:30:00".
GarbageStamps ==
  {<<"n", "o", "t", "-", "a", "-", "d", "a", "t", "e">>,
   <<"0", "0", "0", "0", ":", "0", "0", ":", "0", "0", " ",
     "0", "0", ":", "0", "0", ":", "0", "0">>,
   <<"2", "0", "2", "4", ":", "0", "2", ":", "3", "0">> \o TimeOfDay}

Stamps ==
  {ExifStamp(d) : d \in Dates} \cup {DashDate(d) : d \in Dates}
    \cup {ColonDate(d) : d \in Dates} \cup {DashStamp(d) : d \in Dates}
    \cup GarbageStamps

\* The three date fields of an image; a field is missing, empty, or holds a
\* text, and at most one of the three holds a text that is not empty.
DateFieldNames == <<"datetime_original", "datetime", "datetime_digitized">>

BlankFields == {Missing(<<>>), Present(<<>>)}

DatedImages ==
  {f \in [1..3 -> BlankFields \cup {Present(t) : t \in Stamps}] :
     Cardinality({i \in 1..3 : f[i] \notin BlankFields}) <= 1}

\* date_from and date_to: None or a date.
DateBounds == {<<>>} \cup {<<d>> : d \in Dates}

\* ImageMetadata.extract_date_taken: the first field that is there and not
\* empty, or None.
extract_date_taken(image) ==
  LET found == {i \in 1..3 : image[i].present /\ image[i].value # <<>>}
  IN  IF found = {} THEN <<>>
      ELSE <<image[CHOOSE i \in found : \A j \in found : i <= j].value>>

\* ':' in text
HasColon(text) == \E i \in 1..Len(text) : text[i] = ":"

\* DateParser.is_date_in_range
is_date_in_range(image_date, date_from, date_to) ==
  IF image_date = <<>> \/ image_date[1] = <<>>
       \/ (date_from = <<>> /\ date_to = <<>>)
    THEN TRUE
  ELSE LET text == image_date[1]
           img_date == IF HasColon(text)
                         THEN strptime_date(Prefix(text, 10), ":")
                         ELSE strptime_date(Prefix(text, 10), "-")
       IN  IF img_date = <<>> THEN TRUE
           ELSE IF date_from # <<>> /\ DateBefore(img_date[1], date_from[1])
             THEN FALSE
           ELSE IF date_to # <<>> /\ DateBefore(date_to[1], img_date[1])
             THEN FALSE
           ELSE TRUE

\* GPSFilter.apply_date_filters
apply_date_filters(image, filter_config) ==
  IF filter_config.date_from = <<>> /\ filter_config.date_to = <<>> THEN TRUE
  ELSE LET image_date == extract_date_taken(image)
       IN  IF image_date = <<>> THEN TRUE
           ELSE is_date_in_range(image_date, filter_config.date_from,
                                 filter_config.date_to)

\* GeoImageSearch.check_date_range
check_date_range(image, date_from, date_to) ==
  IF date_from = <<>> /\ date_to = <<>> THEN TRUE
  ELSE LET image_date_str == extract_date_taken(image)
       IN  IF image_date_str = <<>> THEN FALSE
           ELSE LET text == image_date_str[1]
                    first == IF \E i \in 1..Len(text) : text[i] = " "
                               THEN strptime_datetime(text)
                               ELSE strptime_date(text, ":")
                    image_date == IF first # <<>> THEN first
                                  ELSE strptime_date(first_token(text), "-")
                IN  IF image_date = <<>> THEN FALSE
                    ELSE IF date_from # <<>>
                              /\ DateBefore(image_date[1], date_from[1])
                      THEN FALSE
                    ELSE IF date_to # <<>>
                              /\ DateBefore(date_to[1], image_date[1])
                      THEN FALSE
                    ELSE TRUE

InitDate ==
  /\ impl \in {"package", "legacy"}
  /\ call \in [fn : {IF impl = "package" THEN "apply_date_filters"
                     ELSE "check_date_range"},
               image : DatedImages,
               filter_config : [date_from : DateBounds, date_to : DateBounds]]
  /\ result = [pc |-> "called"]
  /\ ScanIdle
  /\ ClusterIdle
  /\ MatchIdle

\* A call of apply_date_filters returns.
ApplyDateFilters ==
  /\ UNCHANGED <<scanVars, clusterVars, matchVars, impl>>
  /\ call.fn = "apply_date_filters"
  /\ result.pc = "called"
  /\ result' = [pc |-> "returned",
                value |-> apply_date_filters(call.image, call.filter_config)]
  /\ UNCHANGED call

\* A call of check_date_range returns.
CheckDateRange ==
  /\ UNCHANGED <<scanVars, clusterVars, matchVars, impl>>
  /\ call.fn = "check_date_range"
  /\ result.pc = "called"
  /\ result' = [pc |-> "returned",
                value |-> check_date_range(call.image,
                                           call.filter_config.date_from,
                                           call.filter_config.date_to)]
  /\ UNCHANGED call

NextDate ==
  \/ ApplyDateFilters
  \/ CheckDateRange

SpecDate == InitDate /\ [][NextDate]_vars

\* ------------------------------------------ claims about the date filter

\* A date filter has returned its answer for an image.
DateFilterReturned ==
  /\ call.fn \in {"apply_date_filters", "check_date_range"}
  /\ result.pc = "returned"

\* A date window is configured.
WindowConfigured ==
  call.filter_config.date_from # <<>> \/ call.filter_config.date_to # <<>>

\* C13: with a date window configured, an image with no timestamp in any of
\* the three date fields, or with a timestamp that is no date, passes the date
\* filter.
C13_UndatedImagePasses ==
  (/\ DateFilterReturned
   /\ WindowConfigured
   /\ \/ extract_date_taken(call.image) = <<>>
      \/ extract_date_taken(call.image)[1] \in GarbageStamps)
    => result.value = TRUE

\* The date d lies outside the configured window: strictly before date_from
\* or strictly after date_to, for the bounds that are set.
OutsideWindow(d) ==
  \/ /\ call.filter_config.date_from # <<>>
     /\ DateBefore(d, call.filter_config.date_from[1])
  \/ /\ call.filter_config.date_to # <<>>
     /\ DateBefore(call.filter_config.date_to[1], d)

\* The layouts of a timestamp whose first 10 characters are a date written
\* with colons or with dashes: "YYYY:MM:DD HH:MM:SS", "YYYY-MM-DD",
\* "YYYY:MM:DD" and "YYYY-MM-DD HH:MM:SS".
AcceptedLayouts(d) ==
  {<<ExifStamp(d)>>, <<DashDate(d)>>, <<ColonDate(d)>>, <<DashStamp(d)>>}

\* C14: an image whose timestamp begins with a date of 10 characters, written
\* with colons or with dashes, is rejected by the date filter exactly when
\* that date is strictly before date_from or strictly after date_to.
C14_DateWindowInclusive ==
  (call.fn = "apply_date_filters" /\ result.pc = "returned") =>
    \A d \in Dates :
      extract_date_taken(call.image) \in AcceptedLayouts(d)
        => (result.value = FALSE <=> OutsideWindow(d))

\* ------------------------------------------- loading any checkpoint file

\* A checkpoint file found on disk, whoever wrote it: no file, a file that
\* cannot be opened, an empty file, a file cut short, bytes that are no
\* document, or a well-formed document.  A document is a value: its type and,
\* for a text or an array, its items.
Value(type, items) == [type |-> type, items |-> items]

NoDocument == [type |-> "none", processed_files |-> Value("absent", <<>>),
               matches |-> FALSE]

FileNames == {"f1", "f2"}

\* What the key "processed_files" of a document may hold: nothing (the key
\* is not there), null, a number, a text, an array of file identifiers, an
\* array of arrays.
ProcessedFilesValues ==
  {Value("absent", <<>>), Value("null", <<>>), Value("number", <<>>)}
    \cup {Value("string", t) : t \in SeqsUpTo({"a", "b"}, MaxIds)}
    \cup {Value("array", a) : a \in SeqsUpTo(FileNames, MaxIds)}
    \cup {Value("array of arrays", a) : a \in SeqsUpTo(FileNames, MaxIds)}

\* The documents: an object with the key "processed_files", written under
\* the same search parameters or under others (the single-file program stores
\* them), and a document that is an array.
Documents ==
  {[type |-> "object", processed_files |-> v, matches |-> m] :
     v \in ProcessedFilesValues, m \in BOOLEAN}
    \cup {[type |-> "array", processed_files |-> Value("absent", <<>>),
           matches |-> FALSE]}

DamagedKinds == {"missing", "unreadable", "empty", "truncated", "garbage"}

CheckpointFiles ==
  {[kind |-> k, doc |-> NoDocument] : k \in DamagedKinds}
    \cup {[kind |-> "document", doc |-> d] : d \in Documents}

\* What a load gives the scan: whether an exception left the load, and the
\* processed set the scan starts with.
Fresh == [raised |-> FALSE, processed |-> {}]
Raised == [raised |-> TRUE, processed |-> {}]

\* CheckpointManager.load_checkpoint on any file: None (<<>>) or the
\* processed_files it returns.
load_checkpoint_file(file) ==
  IF file.kind = "missing" THEN <<>>
  ELSE IF file.kind = "unreadable" THEN <<>>
  ELSE IF file.kind \in {"empty", "truncated", "garbage"} THEN <<>>
  ELSE IF file.doc.type # "object" THEN <<>>
  ELSE LET processed_files ==
             IF file.doc.processed_files.type = "absent"
               THEN Value("array", <<>>)
               ELSE file.doc.processed_files
       IN  IF processed_files.type \in {"null", "number"} THEN <<>>
           ELSE <<processed_files>>

\* SearchWorkflow._handle_checkpoint_resume on any file: set(processed_files)
\* raises TypeError for an item that is an array.
handle_checkpoint_resume_file(resume, file) ==
  IF ~resume THEN Fresh
  ELSE LET checkpoint_data == load_checkpoint_file(file)
       IN  IF checkpoint_data = <<>> THEN Fresh
           ELSE IF /\ checkpoint_data[1].type = "array of arrays"
                   /\ checkpoint_data[1].items # <<>>
             THEN Raised
           ELSE [raised |-> FALSE,
                 processed |-> Range(checkpoint_data[1].items)]

\* pickle.load: what it raises for a file ("none" when it returns the
\* document).  A file cut short raises UnpicklingError or EOFError, by where
\* it was cut.
PickleLoadRaises(file) ==
  IF file.kind = "unreadable" THEN {"OSError"}
  ELSE IF file.kind = "empty" THEN {"EOFError"}
  ELSE IF file.kind = "truncated" THEN {"UnpicklingError", "EOFError"}
  ELSE IF file.kind = "garbage" THEN {"UnpicklingError"}
  ELSE {"none"}

\* GeoImageSearch.load_checkpoint on any file, pickle.load raising `raises`.
legacy_load_checkpoint(file, raises) ==
  IF file.kind = "missing" THEN Fresh
  ELSE IF raises \in {"OSError", "UnpicklingError"} THEN Fresh
  ELSE IF raises # "none" THEN Raised
  ELSE IF file.doc.type # "object" THEN Raised
  ELSE IF ~file.doc.matches THEN Fresh
  ELSE [raised |-> FALSE,
        processed |-> Range(file.doc.processed_files.items)]

InitLoad ==
  /\ impl \in {"package", "legacy"}
  /\ call \in [fn : {IF impl = "package" THEN "_handle_checkpoint_resume"
                     ELSE "load_checkpoint"},
               resume : BOOLEAN,
               file : CheckpointFiles]
  /\ impl = "legacy" =>
       /\ call.resume
       /\ call.file.doc.processed_files.type \in {"absent", "array"}
  /\ result = [pc |-> "called"]
  /\ ScanIdle
  /\ ClusterIdle
  /\ MatchIdle

\* SearchWorkflow.run: _handle_checkpoint_resume.
HandleCheckpointResumeFile ==
  /\ UNCHANGED <<scanVars, clusterVars, matchVars, impl>>
  /\ call.fn = "_handle_checkpoint_resume"
  /\ result.pc = "called"
  /\ result' = [pc |-> "returned",
                value |-> handle_checkpoint_resume_file(call.resume,
                                                        call.file)]
  /\ UNCHANGED call

\* GeoImageSearch.startup: self.load_checkpoint().
LoadCheckpoint ==
  /\ UNCHANGED <<scanVars, clusterVars, matchVars, impl>>
  /\ call.fn = "load_checkpoint"
  /\ result.pc = "called"
  /\ \E raises \in PickleLoadRaises(call.file) :
       result' = [pc |-> "returned",
                  value |-> legacy_load_checkpoint(call.file, raises)]
  /\ UNCHANGED call

NextLoad ==
  \/ HandleCheckpointResumeFile
  \/ LoadCheckpoint

SpecLoad == InitLoad /\ [][NextLoad]_vars

\* ------------------------------- claim about loading any checkpoint file

\* The file is not a checkpoint: it is missing, unreadable, empty, cut short,
\* no document, or a document of the wrong shape (not an object, or an object
\* whose "processed_files" is not an array of file identifiers).
NotACheckpoint(file) ==
  \/ file.kind \in DamagedKinds
  \/ file.doc.type # "object"
  \/ file.doc.processed_files.type # "array"

\* C15: loading a file that is not a checkpoint raises nothing and the scan
\* starts with an empty processed set.
C15_LoadNeverRaises ==
  (/\ call.fn \in {"_handle_checkpoint_resume", "load_checkpoint"}
   /\ result.pc = "returned"
   /\ NotACheckpoint(call.file)) => result.value = Fresh

\* ---------------------------------------------- processing a single file

\* The exception classes the handlers of the per-file processing name, and
\* KeyError for every class none of them names.
ExceptionClasses ==
  {"OSError", "MemoryError", "ValueError", "TypeError", "AttributeError",
   "KeyError"}

\* What the reverse geocoder raises: a network error or geopy's own.
GeocoderExceptions == {"OSError", "GeocoderServiceError"}

\* What goes wrong with a file, if anything: open() fails, Image() fails,
\* the metadata reader fails on the date fields, on gps_latitude or on
\* gps_horizontal_error, or the reverse geocoder fails on the coordinates of
\* the file, with an exception of some class.
NoFault == [stage |-> "none", class |-> "none"]

Faults ==
  {NoFault, [stage |-> "open", class |-> "OSError"]}
    \cup [stage : {"load", "date", "coords", "accuracy"},
          class : ExceptionClasses]
    \cup [stage : {"geocode"}, class : GeocoderExceptions]

\* The date fields, GPS attributes and accuracy readings of the files.
NoDates == [i \in 1..3 |-> Missing(<<>>)]

FileDates ==
  {NoDates} \cup {[NoDates EXCEPT ![1] = Present(ExifStamp(d))] : d \in Dates}

FileGPS ==
  [gps_latitude : {Missing(<<>>), Present(<<45, 0, 0>>),
                   Present(<<MaxDegrees, 0, 0>>)},
   gps_latitude_ref : {Present("N"), Present("S")},
   gps_longitude : {Missing(<<>>), Present(<<45, 30, 0>>)},
   gps_longitude_ref : {Present("E")}]

FileAccuracy ==
  [gps_horizontal_error : {NoReading, Reading(0), Reading(MaxAccuracy)},
   gps_dop : {NoReading}]

\* A file with a date, coordinates near the search center and an accurate
\* reading.
GoodFile ==
  [fault |-> NoFault,
   dates |-> [NoDates EXCEPT ![1] = Present(ExifStamp(<<2024, 1, 1>>))],
   gps |-> [gps_latitude |-> Present(<<45, 0, 0>>),
            gps_latitude_ref |-> Present("N"),
            gps_longitude |-> Present(<<45, 30, 0>>),
            gps_longitude_ref |-> Present("E")],
   accuracy |-> [gps_horizontal_error |-> Reading(0), gps_dop |-> NoReading]]

\* The files of the walk: the files nothing goes wrong with, and the good
\* file with each of the faults.
ImageFiles ==
  [fault : {NoFault}, dates : FileDates, gps : FileGPS,
   accuracy : FileAccuracy]
    \cup {[GoodFile EXCEPT !.fault = f] : f \in Faults}

\* The filter configurations of the walk.
FilterConfigs ==
  [date_from : {<<>>, <<(<<2024, 1, 1>>)>>}, date_to : {<<>>},
   max_gps_error : {<<>>, <<1>>}, max_dop : {<<>>}]

\* The search of the walk: the center, in arc seconds, and the radius.
WalkSearch ==
  [coords |-> <<45 * ArcSeconds, 45 * ArcSeconds + 30 * 60>>, radius |-> 1]

\* What extract_image_gps_data did with a file: the steps it reached, in
\* order, the filter that rejected the file, the exception that left it, and
\* the record it returned (<<>> for None).
Extracted(reached, rejected_by, raises, data) ==
  [reached |-> reached, rejected_by |-> rejected_by, raises |-> raises,
   data |-> data]

\* An exception of class c raised inside the try block of
\* extract_image_gps_data: OSError is caught there, the others leave.
LeavesExtract(reached, c) ==
  Extracted(reached, "none", IF c = "OSError" THEN "none" ELSE c, <<>>)

\* GPSImageProcessor.extract_image_gps_data
extract_image_gps_data(image, filter_config) ==
  LET fault == image.fault
      window == filter_config.date_from # <<>> \/ filter_config.date_to # <<>>
      date_fails == fault.stage = "date" /\ fault.class # "AttributeError"
      dates == IF fault.stage = "date" THEN NoDates ELSE image.dates
      coords_fails == fault.stage = "coords" /\ fault.class # "AttributeError"
      gps == IF fault.stage = "coords"
               THEN [image.gps EXCEPT !.gps_latitude = Missing(<<>>)]
               ELSE image.gps
      coords == get_decimal_coords(gps)
      accuracy_read == filter_config.max_gps_error # <<>>
      accuracy_fails ==
        /\ fault.stage = "accuracy"
        /\ accuracy_read
        /\ fault.class \notin {"AttributeError", "ValueError", "TypeError"}
      accuracy == IF fault.stage = "accuracy"
                    THEN [image.accuracy EXCEPT
                            !.gps_horizontal_error = UnreadableReading]
                    ELSE image.accuracy
  IN  IF fault.stage = "open" THEN LeavesExtract(<<>>, fault.class)
      ELSE IF fault.stage = "load"
        THEN IF fault.class \in {"OSError", "MemoryError", "ValueError"}
               THEN Extracted(<<"load">>, "none", "none", <<>>)
               ELSE LeavesExtract(<<"load">>, fault.class)
      ELSE IF window /\ date_fails
        THEN LeavesExtract(<<"load", "date">>, fault.class)
      ELSE IF ~apply_date_filters(dates, filter_config)
        THEN Extracted(<<"load", "date">>, "date", "none", <<>>)
      ELSE IF coords_fails
        THEN LeavesExtract(<<"load", "date", "coords">>, fault.class)
      ELSE IF coords.lat_deg_dec = <<>> \/ coords.long_deg_dec = <<>>
        THEN Extracted(<<"load", "date", "coords">>, "none", "none", <<>>)
      ELSE IF accuracy_fails
        THEN LeavesExtract(<<"load", "date", "coords", "accuracy">>,
                           fault.class)
      ELSE IF ~apply_gps_accuracy_filters(accuracy, filter_config)
        THEN Extracted(<<"load", "date", "coords", "accuracy">>, "accuracy",
                       "none", <<>>)
      ELSE IF date_fails
        THEN LeavesExtract(<<"load", "date", "coords", "accuracy">>,
                           fault.class)
      ELSE Extracted(<<"load", "date", "coords", "accuracy">>, "none", "none",
                     <<[latitude |-> coords.lat_deg_dec[1],
                        longitude |-> coords.long_deg_dec[1]]>>)

\* geopy.distance.distance raises ValueError for a latitude outside
\* [-90, 90] degrees.
LatitudeOutOfRange(latitude) ==
  latitude < -90 * ArcSeconds \/ latitude > 90 * ArcSeconds

\* SearchWorkflow._process_image_file on a file: what extraction did, the
\* image data returned (<<>> for None) and the exception that left the
\* function ("none" when it returned).
process_image_file_of(image, filter_config, search) ==
  LET extracted == extract_image_gps_data(image, filter_config)
      caught == {"OSError", "ValueError", "TypeError"}
  IN  IF extracted.raises # "none"
        THEN [extracted |-> extracted, image_data |-> <<>>,
              escaped |-> IF extracted.raises \in caught THEN "none"
                          ELSE extracted.raises]
      ELSE IF extracted.data = <<>>
        THEN [extracted |-> extracted, image_data |-> <<>>,
              escaped |-> "none"]
      ELSE IF LatitudeOutOfRange(extracted.data[1].latitude)
        THEN [extracted |-> extracted, image_data |-> <<>>,
              escaped |-> "none"]
      ELSE [extracted |-> extracted,
            image_data |->
              IF is_within_radius(search.coords, search.radius,
                                  <<extracted.data[1].latitude,
                                    extracted.data[1].longitude>>)
                THEN extracted.data ELSE <<>>,
            escaped |-> "none"]

\* GeoImageSearch.calc_distance in standard mode on a file, inside the try
\* block of the walk: the steps reached, the image data of a match and the
\* exception that left the walk's try block ("none" when the walk goes on).
calc_distance_of(image, filter_config, search, image_addresses) ==
  LET fault == image.fault
      window == filter_config.date_from # <<>> \/ filter_config.date_to # <<>>
      gps == IF fault.stage = "coords"
               THEN [image.gps EXCEPT !.gps_latitude = Missing(<<>>)]
               ELSE image.gps
      coords == get_decimal_coords(gps)
      data == <<[latitude |-> coords.lat_deg_dec[1],
                 longitude |-> coords.long_deg_dec[1]]>>
      Left(reached, c) ==
        [extracted |-> Extracted(reached, "none", c, <<>>),
         image_data |-> <<>>,
         escaped |-> IF c = "OSError" THEN "none" ELSE c]
      Returned(reached, rejected_by, found, match) ==
        [extracted |-> Extracted(reached, rejected_by, "none", found),
         image_data |-> match,
         escaped |-> "none"]
  IN  IF fault.stage = "open" THEN Left(<<>>, fault.class)
      ELSE IF fault.stage = "load"
        THEN IF fault.class \in {"OSError", "MemoryError", "ValueError"}
               THEN Returned(<<"load">>, "none", <<>>, <<>>)
               ELSE Left(<<"load">>, fault.class)
      ELSE IF window /\ fault.stage = "date"
        THEN Returned(<<"load", "date">>, "date", <<>>, <<>>)
      ELSE IF ~check_date_range(image.dates, filter_config.date_from,
                                filter_config.date_to)
        THEN Returned(<<"load", "date">>, "date", <<>>, <<>>)
      ELSE IF fault.stage = "coords" /\ fault.class # "AttributeError"
        THEN Left(<<"load", "date", "coords">>, fault.class)
      ELSE IF coords.lat_deg_dec = <<>> \/ coords.long_deg_dec = <<>>
        THEN Returned(<<"load", "date", "coords">>, "none", <<>>, <<>>)
      ELSE IF /\ image_addresses
              /\ fault.stage = "geocode"
              /\ fault.class \notin {"OSError", "ValueError"}
        THEN Left(<<"load", "date", "coords">>, fault.class)
      ELSE IF LatitudeOutOfRange(coords.lat_deg_dec[1])
        THEN Left(<<"load", "date", "coords">>, "ValueError")
      ELSE Returned(<<"load", "date", "coords">>, "none", data,
                    IF process_standard_image(coords.lat_deg_dec[1],
                                              coords.long_deg_dec[1],
                                              search.coords, search.radius)
                      THEN data ELSE <<>>)

InitFiles ==
  /\ impl \in {"package", "legacy"}
  /\ call \in [fn : {"walk"}, filter_config : FilterConfigs,
               search : {WalkSearch}, image_addresses : BOOLEAN,
               files : {MaxWalk}]
  /\ result = [pc |-> "walking", visited |-> 0]
  /\ ScanIdle
  /\ ClusterIdle
  /\ MatchIdle

\* What the walk does after a file: an exception that left the processing of
\* the file ends the walk, otherwise it goes on to the next file, if any.
AfterFile(file, outcome) ==
  [pc |-> IF outcome.escaped # "none" THEN "aborted"
          ELSE IF result.visited + 1 = call.files THEN "returned"
          ELSE "walking",
   visited |-> result.visited + 1,
   file |-> file,
   outcome |-> outcome]

\* SearchWorkflow._scan_and_process_images: one file of the walk.
ProcessImageFile ==
  /\ UNCHANGED <<scanVars, clusterVars, matchVars, impl, call>>
  /\ impl = "package"
  /\ result.pc = "walking"
  /\ \E file \in ImageFiles :
       result' = AfterFile(file, process_image_file_of(file,
                                   call.filter_config, call.search))

\* The walk of the single-file program: one file.
CalcDistance ==
  /\ UNCHANGED <<scanVars, clusterVars, matchVars, impl, call>>
  /\ impl = "legacy"
  /\ result.pc = "walking"
  /\ \E file \in ImageFiles :
       result' = AfterFile(file, calc_distance_of(file, call.filter_config,
                                   call.search, call.image_addresses))

NextFiles == ProcessImageFile \/ CalcDistance

SpecFiles == InitFiles /\ [][NextFiles]_vars

\* ------------------------------------- claims about processing a file

\* A file of the walk has been processed.
FileProcessed == call.fn = "walk" /\ result.visited > 0

\* C16: no error raised while processing a file ends the walk: the walk goes
\* on to the next file and returns only after the last one.
C16_FileErrorsNeverAbortWalk ==
  call.fn = "walk" => result.pc # "aborted"

\* C18: every record GPS extraction produces has its latitude in [-90, 90]
\* and its longitude in [-180, 180] degrees.
C18_CoordinatesInDomain ==
  (FileProcessed /\ result.outcome.extracted.data # <<>>) =>
    LET record == result.outcome.extracted.data[1]
    IN  /\ record.latitude >= -90 * ArcSeconds
        /\ record.latitude <= 90 * ArcSeconds
        /\ record.longitude >= -180 * ArcSeconds
        /\ record.longitude <= 180 * ArcSeconds

Position(reached, stage) ==
  IF \E i \in 1..Len(reached) : reached[i] = stage
    THEN CHOOSE i \in 1..Len(reached) : reached[i] = stage
    ELSE 0

\* C20: the date filter runs first, then the accuracy filter, then the
\* coordinate extraction: a file the date filter rejected reached neither of
\* the other two, a file the accuracy filter rejected did not reach the
\* coordinate extraction, and a file that reached the coordinate extraction
\* had passed the accuracy filter before.
C20_FilterOrder ==
  FileProcessed =>
    LET extracted == result.outcome.extracted
        date == Position(extracted.reached, "date")
        accuracy == Position(extracted.reached, "accuracy")
        coords == Position(extracted.reached, "coords")
    IN  /\ extracted.rejected_by = "date" => (accuracy = 0 /\ coords = 0)
        /\ extracted.rejected_by = "accuracy" => coords = 0
        /\ accuracy # 0 => (date # 0 /\ date < accuracy)
        /\ coords # 0 => (accuracy # 0 /\ accuracy < coords)

\* ---------------------------------------------------- starting a search

\* address, latitude and longitude of the search configuration: None or a
\* value, the coordinates in arc seconds.
CenterValues == {0, 45 * ArcSeconds, MaxDegrees * ArcSeconds}

SearchConfigs ==
  [address : {<<>>, <<"a">>},
   latitude : {<<>>} \cup {<<v>> : v \in CenterValues},
   longitude : {<<>>} \cup {<<v>> : v \in CenterValues}]

\* What a call of the geocoder gives: a location, None, or an error of the
\* service.
GeocoderResponses == {"location", "none", "GeocoderServiceError"}

\* The coordinates of the location the geocoder finds for the address.
GeocodedLocation == <<45 * ArcSeconds, 45 * ArcSeconds + 30 * 60>>

\* LocationSearchEngine.initialize_search_location: the exception raised
\* ("none" when it returns) and the search center set (<<>> for None).
initialize_search_location(search_config, response) ==
  LET Raise(e) == [raised |-> e, search_coords |-> <<>>]
      Center(c) == [raised |-> "none", search_coords |-> <<c>>]
  IN  IF search_config.address # <<>>
        THEN IF response = "location" THEN Center(GeocodedLocation)
             ELSE Raise("ConfigurationError")
      ELSE IF /\ search_config.latitude # <<>>
              /\ search_config.latitude[1] # 0
              /\ search_config.longitude # <<>>
              /\ search_config.longitude[1] # 0
        THEN IF LatitudeOutOfRange(search_config.latitude[1])
               THEN Raise("ValueError")
             ELSE IF response = "location"
               THEN Center(<<search_config.latitude[1],
                             search_config.longitude[1]>>)
             ELSE Raise("ConfigurationError")
      ELSE Raise("ConfigurationError")

InitStartup ==
  /\ impl = "package"
  /\ call \in [fn : {"run"}, search_config : SearchConfigs,
               root_exists : BOOLEAN, resume : BOOLEAN]
  /\ result = [pc |-> "start", raised |-> "none", search_coords |-> <<>>,
               geocoder |-> "not called", checkpoint_loaded |-> FALSE,
               files_read |-> FALSE]
  /\ ScanIdle
  /\ ClusterIdle
  /\ MatchIdle

\* SearchWorkflow._initialize_components
RunInitializeComponents ==
  /\ UNCHANGED <<scanVars, clusterVars, matchVars, impl, call>>
  /\ call.fn = "run"
  /\ result.pc = "start"
  /\ \E response \in GeocoderResponses :
       LET r == initialize_search_location(call.search_config, response)
       IN  result' = [result EXCEPT
                        !.pc = IF r.raised # "none" THEN "failed"
                               ELSE "initialized",
                        !.raised = r.raised,
                        !.search_coords = r.search_coords,
                        !.geocoder = response]

\* SearchWorkflow._validate_directories
RunValidateDirectories ==
  /\ UNCHANGED <<scanVars, clusterVars, matchVars, impl, call>>
  /\ call.fn = "run"
  /\ result.pc = "initialized"
  /\ result' = IF call.root_exists
                 THEN [result EXCEPT !.pc = "validated"]
                 ELSE [result EXCEPT !.pc = "failed", !.raised = "SystemExit"]

\* SearchWorkflow._handle_checkpoint_resume
RunHandleCheckpointResume ==
  /\ UNCHANGED <<scanVars, clusterVars, matchVars, impl, call>>
  /\ call.fn = "run"
  /\ result.pc = "validated"
  /\ result' = [result EXCEPT !.pc = "resumed",
                              !.checkpoint_loaded = call.resume]

\* SearchWorkflow._scan_and_process_images
RunScanAndProcessImages ==
  /\ UNCHANGED <<scanVars, clusterVars, matchVars, impl, call>>
  /\ call.fn = "run"
  /\ result.pc = "resumed"
  /\ result' = [result EXCEPT !.pc = "scanned", !.files_read = TRUE]

NextStartup ==
  \/ RunInitializeComponents
  \/ RunValidateDirectories
  \/ RunHandleCheckpointResume
  \/ RunScanAndProcessImages

SpecStartup == InitStartup /\ [][NextStartup]_vars

\* --------------------------------------- claim about starting a search

\* A coordinate of the valid domain: latitude in [-90, 90] and longitude in
\* [-180, 180] degrees.
InDomain(latitude, longitude) ==
  /\ latitude >= -90 * ArcSeconds
  /\ latitude <= 90 * ArcSeconds
  /\ longitude >= -180 * ArcSeconds
  /\ longitude <= 180 * ArcSeconds

\* The configuration is in error: neither an address nor both coordinates,
\* an address the geocoder finds no location for, or a center outside the
\* domain.
ConfigurationInError ==
  LET c == call.search_config
  IN  \/ c.address = <<>> /\ (c.latitude = <<>> \/ c.longitude = <<>>)
      \/ c.address # <<>> /\ result.geocoder # "location"
      \/ /\ c.address = <<>>
         /\ c.latitude # <<>>
         /\ c.longitude # <<>>
         /\ ~InDomain(c.latitude[1], c.longitude[1])

\* C17: once the components are initialized, a configuration in error has
\* raised an error, and the run has loaded no checkpoint and read no file.
C17_ConfigurationErrorFatalBeforeScan ==
  (call.fn = "run" /\ result.pc # "start" /\ ConfigurationInError) =>
    /\ result.pc = "failed"
    /\ result.raised \in {"ConfigurationError", "ValueError"}
    /\ ~result.checkpoint_loaded
    /\ ~result.files_read

\* ------------------------------- merging the configuration file

\* Constants.DEFAULT_RADIUS, 0.1 miles, in tenths of a mile.
DEFAULT_RADIUS == 1

\* cluster_radius: float = 0.1, less than one unit of the grid of coordinates.
DEFAULT_CLUSTER_RADIUS == 0

\* What the user gave on the command line, of each option: <<>> when the
\* option was not given, <<v>> when it was given with the value v. --far is
\* a flag: given or not.
CommandLines ==
  [address : {<<>>, <<"">>, <<"CLI Address">>},
   latitude : {<<>>, <<0>>, <<45>>},
   radius : {<<>>, <<DEFAULT_RADIUS>>, <<10>>},
   far : BOOLEAN,
   max_gps_error : {<<>>, <<0>>}]

\* The sections of the configuration file: of each field <<>> when the file
\* does not hold it, <<v>> when it holds v.
ConfigFiles ==
  [address : {<<>>, <<"Config Address">>},
   latitude : {<<>>, <<10>>},
   radius : {<<>>, <<25>>},
   far : {<<>>, <<TRUE>>, <<FALSE>>},
   max_gps_error : {<<>>, <<5>>}]

\* ArgumentParser.parse_args: the namespace, with None (<<>>) for address,
\* latitude and max_gps_error not given, the default for radius, and False
\* for the flag.
parse_args(command_line) ==
  [address |-> command_line.address,
   latitude |-> command_line.latitude,
   radius |-> IF command_line.radius = <<>> THEN DEFAULT_RADIUS
              ELSE command_line.radius[1],
   far |-> command_line.far,
   max_gps_error |-> command_line.max_gps_error]

\* The merge strategies of _apply_field_mapping: the value of the argument
\* after the mapping, from its value before and the field of the section.
string_not_empty(arg, field) ==
  IF (arg = <<>> \/ arg[1] = "") /\ field # <<>> THEN field ELSE arg

none_check(arg, field) ==
  IF arg = <<>> /\ field # <<>> THEN field ELSE arg

default_value(arg, field, default) ==
  IF arg = default /\ field # <<>> THEN field[1] ELSE arg

boolean_false_to_true(arg, field) ==
  IF ~arg /\ field # <<>> /\ field[1] THEN field[1] ELSE arg

hasattr_none_check(arg, field) ==
  IF arg = <<>> /\ field # <<>> THEN field ELSE arg

\* ConfigurationManager._merge_config_with_args
merge_config_with_args(config_data, args) ==
  [address |-> string_not_empty(args.address, config_data.address),
   latitude |-> none_check(args.latitude, config_data.latitude),
   radius |-> default_value(args.radius, config_data.radius, DEFAULT_RADIUS),
   far |-> boolean_false_to_true(args.far, config_data.far),
   max_gps_error |-> hasattr_none_check(args.max_gps_error,
                                        config_data.max_gps_error)]

\* GeoImageSearch.merge_config_with_args
legacy_merge_config_with_args(config_data, args) ==
  [address |-> IF (args.address = <<>> \/ args.address[1] = "")
                    /\ config_data.address # <<>>
                 THEN config_data.address ELSE args.address,
   latitude |-> IF args.latitude = <<>> /\ config_data.latitude # <<>>
                  THEN config_data.latitude ELSE args.latitude,
   radius |-> IF args.radius = DEFAULT_RADIUS /\ config_data.radius # <<>>
                THEN config_data.radius[1] ELSE args.radius,
   far |-> IF ~args.far /\ config_data.far # <<>> /\ config_data.far[1]
             THEN config_data.far[1] ELSE args.far,
   max_gps_error |-> IF args.max_gps_error = <<>>
                          /\ config_data.max_gps_error # <<>>
                       THEN config_data.max_gps_error
                       ELSE args.max_gps_error]

InitMerge ==
  /\ impl \in {"package", "legacy"}
  /\ call \in [fn : {"merge_config_with_args"}, command_line : CommandLines,
               config_data : ConfigFiles]
  /\ result = [pc |-> "called"]
  /\ ScanIdle
  /\ ClusterIdle
  /\ MatchIdle

\* ConfigurationManager.parse_arguments_and_config: the arguments are parsed
\* and the configuration file is merged into them.
MergeConfigWithArgs ==
  /\ UNCHANGED <<scanVars, clusterVars, matchVars, impl, call>>
  /\ impl = "package"
  /\ call.fn = "merge_config_with_args"
  /\ result.pc = "called"
  /\ result' = [pc |-> "returned",
                value |-> merge_config_with_args(call.config_data,
                            parse_args(call.command_line))]

\* The same in the single-file program.
LegacyMergeConfigWithArgs ==
  /\ UNCHANGED <<scanVars, clusterVars, matchVars, impl, call>>
  /\ impl = "legacy"
  /\ call.fn = "merge_config_with_args"
  /\ result.pc = "called"
  /\ result' = [pc |-> "returned",
                value |-> legacy_merge_config_with_args(call.config_data,
                            parse_args(call.command_line))]

NextMerge == MergeConfigWithArgs \/ LegacyMergeConfigWithArgs

SpecMerge == InitMerge /\ [][NextMerge]_vars

\* ------------------------------------------- claim about the merge

\* C19: after the merge every option the user gave on the command line has
\* the value the user gave, and an option whose value the merge changed is
\* one the user did not give.
C19_CommandLinePrecedence ==
  (call.fn = "merge_config_with_args" /\ result.pc = "returned") =>
    LET given == call.command_line
        args == parse_args(call.command_line)
        merged == result.value
    IN  /\ given.address # <<>> => merged.address = given.address
        /\ given.latitude # <<>> => merged.latitude = given.latitude
        /\ given.radius # <<>> => merged.radius = given.radius[1]
        /\ given.far => merged.far
        /\ given.max_gps_error # <<>> =>
             merged.max_gps_error = given.max_gps_error
        /\ merged.address # args.address => given.address = <<>>
        /\ merged.latitude # args.latitude => given.latitude = <<>>
        /\ merged.radius # args.radius => given.radius = <<>>
        /\ merged.far # args.far => ~given.far
        /\ merged.max_gps_error # args.max_gps_error =>
             given.max_gps_error = <<>>

\* ------------------------------------- more claims about the scan

\* C21: every file the scan has attempted is in the processed set once its
\* iteration is over, and a checkpoint holds every file attempted before it
\* was saved.
C21_AttemptedFilesMarkedProcessed ==
  pc \in {"scan", "done", "interrupted"} =>
    /\ Range(handed) \subseteq processed_files_set
    /\ checkpoint.exists =>
         saved_state.ids \subseteq Range(load_checkpoint(checkpoint))

\* --------------------------------- more claims about the clustering

\* The reverse geocoding raised an error or found no address component.
FailedGeocodes == {g \in GeocodeOutcomes : g.kind # "place"}

\* The names Cluster_<index>_<lat:.3f>_<lon:.3f> of a cluster at p.
FallbackNames(p) ==
  {ClusterPrefix \o <<ToString(n), "_">> \o Format3f(p[1]) \o <<"_">>
     \o Format3f(p[2]) : n \in 0..(MaxImages + 1)}

\* The registry after the image at idx is assigned with geocode outcome g.
RegistryAfter(g) ==
  IF impl = "package"
    THEN cluster_image(cluster_centers, clusters, idx, image_data_list[idx],
                       cluster_radius, g).centers
    ELSE find_or_create_cluster(location_clusters, cluster_radius,
                                image_data_list[idx], g).clusters

\* C22: when the reverse geocoding fails, the assignment of an image still
\* returns; the first image creates its cluster, and a cluster created is
\* centered at the image and has the coordinate-stamped fallback name.
C22_GeocodingFailureFallsBack ==
  (idx <= Len(image_data_list) /\ image_data_list[idx] # NoGPS) =>
    \A g \in FailedGeocodes :
      LET before == Len(Registry)
          after == RegistryAfter(g)
      IN  /\ Len(after) >= before
          /\ before = 0 => Len(after) = 1
          /\ Len(after) > before =>
               /\ Len(after) = before + 1
               /\ after[Len(after)].center = image_data_list[idx]
               /\ after[Len(after)].name
                    \in FallbackNames(image_data_list[idx])

\* Two clusters were created with a fallback name and the images are all
\* assigned.
C22_Witness ==
  /\ idx > Len(image_data_list)
  /\ Len(Registry) >= 2
  /\ \A i \in 1..Len(Registry) :
       Registry[i].name \in FallbackNames(Registry[i].center)

\* ------------------------------------------ when a checkpoint is saved

\* The seconds since the last save, after a file that took dt seconds.
Elapse(elapsed, dt) ==
  IF elapsed + dt > MaxElapsed THEN MaxElapsed ELSE elapsed + dt

\* SearchWorkflow._handle_checkpoint_saving: whether it saves.
checkpoint_due(total) == total % CHECKPOINT_INTERVAL_FILES = 0

\* GeoImageSearch.should_save_checkpoint
should_save_checkpoint(files_processed, elapsed) ==
  \/ files_processed % CHECKPOINT_INTERVAL_FILES = 0
  \/ elapsed > CHECKPOINT_INTERVAL_SECONDS

InitSaving ==
  /\ impl \in {"package", "legacy"}
  /\ call = [fn |-> "scan"]
  /\ result = [pc |-> "walking", files_processed |-> 0, elapsed |-> 0,
               elapsed_at_check |-> 0, saved |-> FALSE, raised |-> FALSE]
  /\ ScanIdle
  /\ ClusterIdle
  /\ MatchIdle

\* One iteration of _scan_and_process_images over a file that is processed:
\* the count, the processing, which takes dt seconds, and
\* _handle_checkpoint_saving.
IterationWithSaving ==
  /\ UNCHANGED <<scanVars, clusterVars, matchVars, impl, call>>
  /\ impl = "package"
  /\ call.fn = "scan"
  /\ result.files_processed < MaxProcessed
  /\ \E dt \in {0, MaxTick} :
       LET total == result.files_processed + 1
           now == Elapse(result.elapsed, dt)
           saves == checkpoint_due(total)
       IN  result' = [pc |-> "walking", files_processed |-> total,
                      elapsed |-> IF saves THEN 0 ELSE now,
                      elapsed_at_check |-> now, saved |-> saves,
                      raised |-> FALSE]

\* One iteration of the per-file loop of the single-file program: the count,
\* and in the try block calc_distance, which takes dt seconds and may raise
\* an OSError, then the periodic checkpoint.
LegacyIterationWithSaving ==
  /\ UNCHANGED <<scanVars, clusterVars, matchVars, impl, call>>
  /\ impl = "legacy"
  /\ call.fn = "scan"
  /\ result.files_processed < MaxProcessed
  /\ \E dt \in {0, MaxTick}, raises \in BOOLEAN :
       LET files_processed == result.files_processed + 1
           now == Elapse(result.elapsed, dt)
           saves == ~raises /\ should_save_checkpoint(files_processed, now)
       IN  result' = [pc |-> "walking", files_processed |-> files_processed,
                      elapsed |-> IF saves THEN 0 ELSE now,
                      elapsed_at_check |-> now, saved |-> saves,
                      raised |-> raises]

NextSaving == IterationWithSaving \/ LegacyIterationWithSaving

SpecSaving == InitSaving /\ [][NextSaving]_vars

\* C23: at the end of an iteration a checkpoint is saved exactly when the
\* number of files processed is a multiple of 100 or more than 30 seconds
\* have passed since the last save.
C23_SaveEvery100FilesOr30Seconds ==
  (call.fn = "scan" /\ result.files_processed > 0) =>
    (result.saved <=>
       \/ result.files_processed % 100 = 0
       \/ result.elapsed_at_check > 30)

\* ------------------------------------- a crash during a checkpoint save

\* A checkpoint the program wrote: an object whose "processed_files" is the
\* array of the identifiers, under the search parameters of this run.
WrittenDocument(processed_files) ==
  [type |-> "object", processed_files |-> Value("array", processed_files),
   matches |-> TRUE]

WrittenFile(processed_files) ==
  [kind |-> "document", doc |-> WrittenDocument(processed_files)]

\* What a run that resumes from the file starts with.
resume_from(file, raises) ==
  IF impl = "package" THEN handle_checkpoint_resume_file(TRUE, file)
  ELSE legacy_load_checkpoint(file, raises)

InitCrash ==
  /\ impl \in {"package", "legacy"}
  /\ call \in [fn : {"save_checkpoint"},
               previous : SeqsUpTo(FileNames, MaxIds),
               processed_files : SeqsUpTo(FileNames, MaxIds)]
  /\ result = [pc |-> "save", file |-> WrittenFile(call.previous),
               value |-> Fresh]
  /\ ScanIdle
  /\ ClusterIdle
  /\ MatchIdle

\* save_checkpoint: open(self.checkpoint_file, "w") empties the file.
OpenForWriting ==
  /\ UNCHANGED <<scanVars, clusterVars, matchVars, impl, call>>
  /\ call.fn = "save_checkpoint"
  /\ result.pc = "save"
  /\ result' = [result EXCEPT !.pc = "opened",
                              !.file = [kind |-> "empty", doc |-> NoDocument]]

\* save_checkpoint: json.dump / pickle.dump has written a part of the
\* document to the file.
WritePart ==
  /\ UNCHANGED <<scanVars, clusterVars, matchVars, impl, call>>
  /\ call.fn = "save_checkpoint"
  /\ result.pc = "opened"
  /\ result' = [result EXCEPT !.pc = "writing",
                              !.file = [kind |-> "truncated",
                                        doc |-> NoDocument]]

\* save_checkpoint: the rest is written and the file is closed.
WriteRestAndClose ==
  /\ UNCHANGED <<scanVars, clusterVars, matchVars, impl, call>>
  /\ call.fn = "save_checkpoint"
  /\ result.pc = "writing"
  /\ result' = [result EXCEPT !.pc = "saved",
                              !.file = WrittenFile(call.processed_files)]

\* The program is killed during the save: the file stays as it is.
Crash ==
  /\ UNCHANGED <<scanVars, clusterVars, matchVars, impl, call>>
  /\ call.fn = "save_checkpoint"
  /\ result.pc \in {"save", "opened", "writing"}
  /\ result' = [result EXCEPT !.pc = "crashed"]

\* The next run, with --resume, loads the file.
ResumeAfterSave ==
  /\ UNCHANGED <<scanVars, clusterVars, matchVars, impl, call>>
  /\ call.fn = "save_checkpoint"
  /\ result.pc \in {"crashed", "saved"}
  /\ \E raises \in PickleLoadRaises(result.file) :
       result' = [result EXCEPT
                    !.pc = IF result.pc = "crashed" THEN "loaded after crash"
                           ELSE "loaded",
                    !.value = resume_from(result.file, raises)]

NextCrash ==
  \/ OpenForWriting
  \/ WritePart
  \/ WriteRestAndClose
  \/ Crash
  \/ ResumeAfterSave

SpecCrash == InitCrash /\ [][NextCrash]_vars

\* What a load of the complete checkpoint with these identifiers gives.
LoadedFrom(processed_files) ==
  [raised |-> FALSE, processed |-> Range(processed_files)]

\* C24: after a crash during a save, the load gives the complete previous
\* checkpoint or the complete new one.
C24_CrashKeepsValidCheckpoint ==
  (call.fn = "save_checkpoint" /\ result.pc = "loaded after crash") =>
    \/ result.value = LoadedFrom(call.previous)
    \/ result.value = LoadedFrom(call.processed_files)

\* ------------------------------------------- interrupting the walk

\* The walk of the single-file program over MaxWalk JPEG files with
\* coordinates, none processed before, each within the radius or not.  The
\* files are few and fast: no periodic checkpoint falls due.
InitCancel ==
  /\ impl = "legacy"
  /\ call \in [fn : {"walk under SIGINT"}, within : [1..MaxWalk -> BOOLEAN],
               image_addresses : BOOLEAN, find_only : BOOLEAN]
  /\ result = [pc |-> "between files", cursor |-> 1, processed_files_set |-> {},
               csv_data |-> <<>>, copied |-> <<>>,
               checkpoint |-> [exists |-> FALSE, processed_files |-> {},
                               csv_data |-> <<>>],
               interrupted_at |-> "never"]
  /\ ScanIdle
  /\ ClusterIdle
  /\ MatchIdle

\* The per-file loop: the next file is counted and opened.
OpenImageFile ==
  /\ UNCHANGED <<scanVars, clusterVars, matchVars, impl, call>>
  /\ call.fn = "walk under SIGINT"
  /\ result.pc = "between files"
  /\ result.cursor <= MaxWalk
  /\ result' = [result EXCEPT !.pc = "file opened"]

\* process_standard_image: the row of the file is appended to csv_data.
RecordImage ==
  /\ UNCHANGED <<scanVars, clusterVars, matchVars, impl, call>>
  /\ call.fn = "walk under SIGINT"
  /\ result.pc = "file opened"
  /\ result' = [result EXCEPT
                  !.pc = "file recorded",
                  !.csv_data = IF call.image_addresses
                                 THEN Append(@, result.cursor) ELSE @]

\* process_standard_image: a file within the radius is copied.
CopyImage ==
  /\ UNCHANGED <<scanVars, clusterVars, matchVars, impl, call>>
  /\ call.fn = "walk under SIGINT"
  /\ result.pc = "file recorded"
  /\ result' = [result EXCEPT
                  !.pc = "file copied",
                  !.copied = IF call.within[result.cursor] /\ ~call.find_only
                               THEN Append(@, result.cursor) ELSE @]

\* The per-file loop: processed_files_set.add(file_id), and on to the next
\* file.
MarkProcessed ==
  /\ UNCHANGED <<scanVars, clusterVars, matchVars, impl, call>>
  /\ call.fn = "walk under SIGINT"
  /\ result.pc = "file copied"
  /\ result' = [result EXCEPT
                  !.pc = "between files",
                  !.processed_files_set = @ \cup {result.cursor},
                  !.cursor = @ + 1]

\* signal_handler: SIGINT is delivered wherever the main thread is; the
\* handler saves the checkpoint and exits.
SignalHandler ==
  /\ UNCHANGED <<scanVars, clusterVars, matchVars, impl, call>>
  /\ call.fn = "walk under SIGINT"
  /\ result.pc \in {"between files", "file opened", "file recorded",
                    "file copied"}
  /\ result.cursor <= MaxWalk
  /\ result' = [result EXCEPT
                  !.pc = "interrupted",
                  !.interrupted_at = result.pc,
                  !.checkpoint = [exists |-> TRUE,
                                  processed_files |-> result.processed_files_set,
                                  csv_data |-> result.csv_data]]

NextCancel ==
  \/ OpenImageFile
  \/ RecordImage
  \/ CopyImage
  \/ MarkProcessed
  \/ SignalHandler

SpecCancel == InitCancel /\ [][NextCancel]_vars

\* C25: an interruption takes effect between two files, and the checkpoint
\* it takes holds in its processed set every file copied or recorded.
C25_CancellationBetweenFiles ==
  (call.fn = "walk under SIGINT" /\ result.pc = "interrupted") =>
    /\ result.interrupted_at = "between files"
    /\ Range(result.copied) \subseteq result.checkpoint.processed_files
    /\ Range(result.csv_data) \subseteq result.checkpoint.processed_files

\* --------------------------------------------- naming a cluster folder

FolderChars == {"a", " ", "/", "_", "."}

\* n letters.
Letters(n) == [i \in 1..n |-> "a"]

\* The cluster names: the short ones, and those that reach the limit of the
\* folder name.
ClusterNames ==
  SeqsUpTo(FolderChars, MaxFolderChars)
    \cup {Letters(n) \o t :
            n \in {FolderNameLimit - 1, FolderNameLimit},
            t \in SeqsUpTo(FolderChars, MaxFolderChars - 1)}

InitFolder ==
  /\ impl \in {"package", "legacy"}
  /\ call \in [fn : {"sanitize_folder_name"}, name : ClusterNames]
  /\ result = [pc |-> "called"]
  /\ ScanIdle
  /\ ClusterIdle
  /\ MatchIdle

\* FileOperationManager.copy_images_by_clusters: the folder of a cluster.
NormalizerSanitizeFolderName ==
  /\ UNCHANGED <<scanVars, clusterVars, matchVars, impl, call>>
  /\ impl = "package"
  /\ call.fn = "sanitize_folder_name"
  /\ result.pc = "called"
  /\ result' = [pc |-> "returned",
                value |-> normalizer_sanitize_folder_name(call.name)]

\* GeoImageSearch.find_or_create_cluster: the folder of a new cluster.
SanitizeFolderName ==
  /\ UNCHANGED <<scanVars, clusterVars, matchVars, impl, call>>
  /\ impl = "legacy"
  /\ call.fn = "sanitize_folder_name"
  /\ result.pc = "called"
  /\ result' = [pc |-> "returned", value |-> sanitize_folder_name(call.name)]

NextFolder == NormalizerSanitizeFolderName \/ SanitizeFolderName

SpecFolder == InitFolder /\ [][NextFolder]_vars

\* C26: the folder identifier of a cluster name holds no unsafe character
\* and no two neighbouring whitespace or underscore characters, neither
\* starts nor ends with an underscore, has at most 100 characters, is not
\* empty, and is Unknown_Location for a name of nothing but unsafe,
\* whitespace and underscore characters.
C26_FolderIdentifierSafe ==
  (call.fn = "sanitize_folder_name" /\ result.pc = "returned") =>
    LET folder == result.value
    IN  /\ \A i \in 1..Len(folder) : folder[i] \notin UnsafeChars
        /\ \A i \in 1..(Len(folder) - 1) :
             ~(folder[i] \in UnderscoreOrSpace
               /\ folder[i + 1] \in UnderscoreOrSpace)
        /\ folder # <<>>
        /\ folder[1] # "_"
        /\ folder[Len(folder)] # "_"
        /\ Len(folder) <= 100
        /\ (\A i \in 1..Len(call.name) :
              call.name[i] \in UnsafeChars \cup UnderscoreOrSpace)
             => folder = UnknownLocation

\* ---------------------------------- more claims about the GPS coordinates

\* The array of an axis has degrees, minutes and seconds.
HasThreeComponents(attribute) ==
  attribute.present /\ Len(attribute.value) >= 3

\* C27: a coordinate is absent only when the array of its axis is missing,
\* empty or shorter than 3 components; for an array of at least 3 components,
\* all zero included, the coordinate is present and is degrees + minutes / 60
\* + seconds / 3600, negated for the references "S" and "W".
C27_AbsentOnlyWithoutThreeComponents ==
  (call.fn = "get_decimal_coords" /\ result.pc = "returned") =>
    /\ (result.value.lat_deg_dec = <<>>)
          <=> ~HasThreeComponents(call.image.gps_latitude)
    /\ (result.value.long_deg_dec = <<>>)
          <=> ~HasThreeComponents(call.image.gps_longitude)
    /\ (HasThreeComponents(call.image.gps_latitude)
          /\ get_gps_latitude_ref(call.image) \in {"N", "S"}) =>
         result.value.lat_deg_dec =
           HemisphereSigned(convert_dhms_to_decimal(call.image.gps_latitude.value),
                            get_gps_latitude_ref(call.image))
    /\ (HasThreeComponents(call.image.gps_longitude)
          /\ get_gps_longitude_ref(call.image) \in {"E", "W"}) =>
         result.value.long_deg_dec =
           HemisphereSigned(convert_dhms_to_decimal(call.image.gps_longitude.value),
                            get_gps_longitude_ref(call.image))

\* ------------------------------------------ standard and clustering mode

\* The images a run walks over, in the order of the walk.
WalkedImages == [1..MaxWalk -> Coords \cup {NoGPS}]

\* cluster_images_by_location over the found images from the k-th on; gs[i]
\* is what the geocoder answers for image i.
RECURSIVE cluster_found(_, _, _, _, _, _)
cluster_found(images, found, k, centers, d, gs) ==
  IF k > Len(found) THEN [centers |-> centers, clusters |-> d]
  ELSE IF images[found[k]] = NoGPS
    THEN cluster_found(images, found, k + 1, centers, d, gs)
  ELSE LET r == cluster_image(centers, d, found[k], images[found[k]],
                              DEFAULT_CLUSTER_RADIUS, gs[found[k]])
       IN  cluster_found(images, found, k + 1, r.centers, r.clusters, gs)

\* A run in either mode over MaxWalk images.  radius_checked holds the images
\* compared with the search center, found the images reported, clusters the
\* clusters created.
InitModes ==
  /\ impl \in {"package", "legacy"}
  /\ call \in [fn : {"run in a mode"}, sort_by_location : BOOLEAN,
                images : WalkedImages, search_coords : SearchCenters,
                radius : {DEFAULT_RADIUS}]
  /\ result = [pc |-> "walk", i |-> 1, found |-> <<>>, radius_checked |-> {},
               clustered |-> {}, clusters |-> <<>>]
  /\ ScanIdle
  /\ ClusterIdle
  /\ MatchIdle

\* GeoImageSearchApp._process_image_file for the next image of the walk: an
\* image with coordinates is compared with the search center, whatever
\* sort_by_location is.
WalkProcessImageFile ==
  /\ UNCHANGED <<scanVars, clusterVars, matchVars, impl, call>>
  /\ impl = "package"
  /\ call.fn = "run in a mode"
  /\ result.pc = "walk"
  /\ result.i <= MaxWalk
  /\ LET image == call.images[result.i]
     IN  result' =
           IF image = NoGPS THEN [result EXCEPT !.i = @ + 1]
           ELSE [result EXCEPT
                   !.i = @ + 1,
                   !.radius_checked = @ \cup {result.i},
                   !.found = IF is_within_radius(call.search_coords,
                                                 call.radius, image)
                               THEN Append(@, result.i) ELSE @]

\* GeoImageSearchApp.run after the walk: without found images it returns;
\* otherwise _handle_exports and _copy_files_if_needed cluster the found
\* images when sort_by_location is set.
HandleExportsAndCopy ==
  /\ UNCHANGED <<scanVars, clusterVars, matchVars, impl, call>>
  /\ impl = "package"
  /\ call.fn = "run in a mode"
  /\ result.pc = "walk"
  /\ result.i > MaxWalk
  /\ \E gs \in [1..MaxWalk -> GeocodeOutcomes] :
       LET r == cluster_found(call.images, result.found, 1, <<>>, <<>>, gs)
       IN  result' =
             IF result.found # <<>> /\ call.sort_by_location
               THEN [result EXCEPT !.pc = "done",
                                   !.clusters = r.centers,
                                   !.clustered = Range(result.found)]
               ELSE [result EXCEPT !.pc = "done"]

\* GeoImageSearch.calc_distance for the next image of the walk: an image with
\* coordinates goes to process_clustered_image when sort_by_location is set
\* and to process_standard_image otherwise.
WalkCalcDistance ==
  /\ UNCHANGED <<scanVars, clusterVars, matchVars, impl, call>>
  /\ impl = "legacy"
  /\ call.fn = "run in a mode"
  /\ result.pc = "walk"
  /\ result.i <= MaxWalk
  /\ LET image == call.images[result.i]
     IN  \E g \in GeocodeOutcomes :
           result' =
             IF image = NoGPS THEN [result EXCEPT !.i = @ + 1]
             ELSE IF call.sort_by_location
               THEN [result EXCEPT
                       !.i = @ + 1,
                       !.clustered = @ \cup {result.i},
                       !.clusters = find_or_create_cluster(@, call.radius,
                                                           image, g).clusters]
             ELSE [result EXCEPT
                     !.i = @ + 1,
                     !.radius_checked = @ \cup {result.i},
                     !.found = IF process_standard_image(image[1], image[2],
                                      call.search_coords, call.radius)
                                 THEN Append(@, result.i) ELSE @]

\* main of the single-file program after the walk.
WalkFinished ==
  /\ UNCHANGED <<scanVars, clusterVars, matchVars, impl, call>>
  /\ impl = "legacy"
  /\ call.fn = "run in a mode"
  /\ result.pc = "walk"
  /\ result.i > MaxWalk
  /\ result' = [result EXCEPT !.pc = "done"]

NextModes ==
  \/ WalkProcessImageFile
  \/ HandleExportsAndCopy
  \/ WalkCalcDistance
  \/ WalkFinished

SpecModes == InitModes /\ [][NextModes]_vars

\* The images of the walk that passed the filters: those with coordinates.
AcceptedImages == {i \in 1..MaxWalk : call.images[i] # NoGPS}

\* C28: in a clustering-mode run every accepted image is handed to the
\* cluster assignment and none is compared with a search center; in a
\* standard-mode run no cluster is created.
C28_ModesMutuallyExclusive ==
  call.fn = "run in a mode" =>
    /\ call.sort_by_location =>
          /\ result.radius_checked = {}
          /\ result.pc = "done" => result.clustered = AcceptedImages
    /\ ~call.sort_by_location => result.clusters = <<>>

\* ------------------------------------------- resuming an interrupted run

\* Trees whose arbitrary entry is the one the walk reaches when the count of
\* processed files can be CHECKPOINT_INTERVAL_FILES.
TreesAtInterval == [{CHECKPOINT_INTERVAL_FILES} -> EntryKinds]

InitResume ==
  /\ pc = "resume"
  /\ run = 1
  /\ config \in {c \in FirstConfigs : c.save_addresses}
  /\ tree \in TreesAtInterval
  /\ cursor = 1
  /\ total_processed = 0
  /\ processed_files_set = {}
  /\ found_images = resumed_found_images
  /\ handed = <<>>
  /\ checkpoint = NoFile
  /\ saved_by = Fingerprint(config)
  /\ saved_state = [ids |-> {}, records |-> <<>>]
  /\ csv_file = <<>>
  /\ exit_code = SUCCESS
  /\ impl = "package"
  /\ ClusterIdle
  /\ MatchIdle
  /\ CallIdle

\* The interrupted program is started again with the same configuration and
\* --resume: the files stay, the memory is new.
ResumeRun ==
  /\ UNCHANGED <<clusterVars, matchVars, callVars, impl>>
  /\ pc = "interrupted"
  /\ run < MaxRuns
  /\ run' = run + 1
  /\ config' = [config EXCEPT !.resume = TRUE]
  /\ pc' = "resume"
  /\ cursor' = 1
  /\ total_processed' = 0
  /\ processed_files_set' = {}
  /\ found_images' = resumed_found_images
  /\ handed' = <<>>
  /\ exit_code' = SUCCESS
  /\ UNCHANGED <<tree, checkpoint, saved_by, saved_state, csv_file>>

NextResume ==
  \/ HandleCheckpointResume
  \/ SkipEntry
  \/ ProcessEntry
  \/ FinishNoImages
  \/ FinishWithImages
  \/ Interrupt
  \/ ResumeRun

SpecResume == InitResume /\ [][NextResume]_vars

\* What a single uninterrupted run over the tree finds: the JPEG files below
\* the root and outside the output directory that lie within the radius.
UninterruptedMatches ==
  {FileId(config.root, i) : i \in
     {j \in 1..NumFiles :
        /\ listed_by_rglob(EntryAt(tree, j))
        /\ ~should_skip_directory(EntryAt(tree, j), config)
        /\ EntryAt(tree, j).jpeg
        /\ process_image_file(EntryAt(tree, j), config)}}

\* C29: when the resumed run of an interrupted run has completed, it has
\* found the images a single uninterrupted run finds, each once, and the CSV
\* file holds the same.
C29_ResumeEquivalentToUninterrupted ==
  (run = 2 /\ pc = "done") =>
    /\ Range(found_images) = UninterruptedMatches
    /\ NoDuplicates(found_images)
    /\ Range(csv_file) = UninterruptedMatches
    /\ NoDuplicates(csv_file)

\* ------------------------------------------ where the checkpoint file is

\* What differs between two executions of the program with one configuration:
\* the seed the interpreter draws for the hashes of strings when it starts, and
\* the working directory the program is started in.
HashSeeds == {1, 2}
WorkingDirectories == {"/home", "/photos"}

DoNotSave == "Do Not Save"
OutputSettings == {DoNotSave, "/out"}

\* hash(x) of a value that holds strings: a function of the value and of the
\* seed of the executing interpreter.
hash(seed, x) == <<seed, x>>

\* GeoImageSearch.get_checkpoint_path
get_checkpoint_path(c, seed) ==
  IF c.output_directory = DoNotSave
    THEN <<"~/.geo_image_search_checkpoints", "checkpoint_",
           hash(seed, <<c.search_coords, c.radius, c.root>>), ".pkl">>
    ELSE <<c.output_directory, "checkpoint.pkl">>

\* CheckpointManager.__init__: a relative name, which open() resolves against
\* the working directory.
checkpoint_file(cwd) == <<cwd, "geo_search_checkpoint.json">>

\* Two executions with one configuration; result.paths holds the checkpoint
\* path of each.
InitPath ==
  /\ impl \in {"package", "legacy"}
  /\ call \in [fn : {"checkpoint path"}, search_coords : SearchCenters,
                radius : {1, 2}, root : Roots,
                output_directory : OutputSettings]
  /\ result = [pc |-> "executing", paths |-> <<>>]
  /\ ScanIdle
  /\ ClusterIdle
  /\ MatchIdle

\* An execution of the single-file program computes its checkpoint path.
GetCheckpointPath ==
  /\ UNCHANGED <<scanVars, clusterVars, matchVars, impl, call>>
  /\ impl = "legacy"
  /\ call.fn = "checkpoint path"
  /\ Len(result.paths) < MaxRuns
  /\ \E seed \in HashSeeds :
       result' = [result EXCEPT !.paths = Append(@, get_checkpoint_path(call, seed))]

\* An execution of the package constructs its CheckpointManager.
CheckpointManagerInit ==
  /\ UNCHANGED <<scanVars, clusterVars, matchVars, impl, call>>
  /\ impl = "package"
  /\ call.fn = "checkpoint path"
  /\ Len(result.paths) < MaxRuns
  /\ \E cwd \in WorkingDirectories :
       result' = [result EXCEPT !.paths = Append(@, checkpoint_file(cwd))]

NextPath ==
  \/ GetCheckpointPath
  \/ CheckpointManagerInit

SpecPath == InitPath /\ [][NextPath]_vars

\* C30: two executions with the same search coordinates, radius, root
\* directory and output setting compute the same checkpoint path.
C30_CheckpointPathDeterministic ==
  (call.fn = "checkpoint path" /\ Len(result.paths) = 2) =>
    result.paths[1] = result.paths[2]


=============================================================================
